---- MODULE Spec2Model ----
(***************************************************************************)
(* Model of the graph-kit core: the Graph class (adjacency lists keyed by  *)
(* String(id), an insertion-ordered node Set, an edge counter) and the     *)
(* algorithms that run on it.                                              *)
(*                                                                         *)
(* NodeId = string | number.  Numbers are modelled by themselves; the      *)
(* string "1" is modelled by the value 11, so that 1 and "1" are different *)
(* members of the node Set (=== on values) but share the adjacency key     *)
(* String(id) = "1".  Keys are modelled by the number whose numeral they   *)
(* are.                                                                    *)
(***************************************************************************)
EXTENDS Integers, Sequences, FiniteSets, TLC

VARIABLES adjacencyList, nodes, edgeCount, config, result,
          localStorage, calls

vars == <<adjacencyList, nodes, edgeCount, config, result, localStorage, calls>>

----------------------------------------------------------------------------
(* Bounds and input domains *)

MaxEdgeCount == 3
MaxSlots == 3

NumIds == {1, 2, 3}
StrIds == {11}
NodeId == NumIds
Weights == {1, 2}

Infinity == 1000

----------------------------------------------------------------------------
(* Helpers for JS containers *)

String(id) == IF id \in StrIds THEN id - 10 ELSE id

Range(s) == {s[i] : i \in 1..Len(s)}

SetHas(s, x) == \E i \in 1..Len(s) : s[i] = x

SetAdd(s, x) == IF SetHas(s, x) THEN s ELSE Append(s, x)

SetDelete(s, x) == SelectSeq(s, LAMBDA y : y # x)

Put(f, k, v) == [x \in (DOMAIN f) \cup {k} |-> IF x = k THEN v ELSE f[x]]

Delete(f, k) == [x \in (DOMAIN f) \ {k} |-> f[x]]

FindIndex(list, id) ==
  IF \E i \in 1..Len(list) : list[i].node = id
  THEN CHOOSE i \in 1..Len(list) :
         /\ list[i].node = id
         /\ \A j \in 1..(i - 1) : list[j].node # id
  ELSE 0

Splice(list, i) == SubSeq(list, 1, i - 1) \o SubSeq(list, i + 1, Len(list))

----------------------------------------------------------------------------
(* class Graph, as operators on the record of its fields *)

NewGraph(cfg) ==
  [adjacencyList |-> <<>>, nodes |-> <<>>, edgeCount |-> 0, config |-> cfg]

addNode(g, id) ==
  IF SetHas(g.nodes, id) THEN g
  ELSE [g EXCEPT !.nodes = Append(@, id),
                 !.adjacencyList = Put(@, String(id), <<>>)]

(* The result of a mutating call: the graph it leaves behind and whether   *)
(* it threw (an Error for a refused self-loop, a TypeError when            *)
(* adjacencyList[key] is undefined).  A throw keeps what was done before.  *)
Ret(g, t) == [graph |-> g, threw |-> t]

addEdge(g, from, to, weight) ==
  IF ~g.config.allowSelfLoops /\ from = to THEN Ret(g, TRUE)
  ELSE
    LET g1 == addNode(addNode(g, from), to)
        fromKey == String(from)
        toKey == String(to)
    IN
    IF fromKey \notin DOMAIN g1.adjacencyList THEN Ret(g1, TRUE)
    ELSE
      LET existing == FindIndex(g1.adjacencyList[fromKey], to) IN
      IF ~g1.config.allowMultipleEdges /\ existing # 0
      THEN Ret([g1 EXCEPT !.adjacencyList[fromKey][existing].weight = weight], FALSE)
      ELSE
        LET g2 == [g1 EXCEPT
                     !.adjacencyList[fromKey] = Append(@, [node |-> to, weight |-> weight]),
                     !.edgeCount = @ + 1]
        IN
        IF g2.config.directed THEN Ret(g2, FALSE)
        ELSE IF toKey \notin DOMAIN g2.adjacencyList THEN Ret(g2, TRUE)
        ELSE Ret([g2 EXCEPT !.adjacencyList[toKey] =
                               Append(@, [node |-> from, weight |-> weight])], FALSE)

removeEdge(g, from, to) ==
  LET fromKey == String(from) IN
  IF fromKey \notin DOMAIN g.adjacencyList THEN Ret(g, FALSE)
  ELSE
    LET index == FindIndex(g.adjacencyList[fromKey], to) IN
    IF index = 0 THEN Ret(g, FALSE)
    ELSE
      LET g1 == [g EXCEPT !.adjacencyList[fromKey] = Splice(@, index),
                          !.edgeCount = @ - 1]
          toKey == String(to)
      IN
      IF g1.config.directed THEN Ret(g1, FALSE)
      ELSE IF toKey \notin DOMAIN g1.adjacencyList THEN Ret(g1, TRUE)
      ELSE
        LET reverseIndex == FindIndex(g1.adjacencyList[toKey], from) IN
        IF reverseIndex = 0 THEN Ret(g1, FALSE)
        ELSE Ret([g1 EXCEPT !.adjacencyList[toKey] = Splice(@, reverseIndex)], FALSE)

(* The loop of removeNode over this.nodes, from position i on. *)
RECURSIVE removeNodeLoop(_, _, _)
removeNodeLoop(g, id, i) ==
  IF i > Len(g.nodes) THEN Ret(g, FALSE)
  ELSE
    LET nodeId == g.nodes[i]
        r1 == removeEdge(g, nodeId, id)
    IN
    IF r1.threw THEN r1
    ELSE
      LET r2 == removeEdge(r1.graph, id, nodeId) IN
      IF r2.threw THEN r2 ELSE removeNodeLoop(r2.graph, id, i + 1)

removeNode(g, id) ==
  IF ~SetHas(g.nodes, id) THEN Ret(g, FALSE)
  ELSE
    LET r == removeNodeLoop(g, id, 1) IN
    IF r.threw THEN r
    ELSE Ret([r.graph EXCEPT !.adjacencyList = Delete(@, String(id)),
                             !.nodes = SetDelete(@, id)], FALSE)

getNeighbors(g, id) ==
  IF String(id) \in DOMAIN g.adjacencyList THEN g.adjacencyList[String(id)] ELSE <<>>

hasEdge(g, from, to) ==
  /\ String(from) \in DOMAIN g.adjacencyList
  /\ FindIndex(g.adjacencyList[String(from)], to) # 0

(* number | undefined is modelled as a set with at most one element. *)
getEdgeWeight(g, from, to) ==
  IF String(from) \notin DOMAIN g.adjacencyList THEN {}
  ELSE LET i == FindIndex(g.adjacencyList[String(from)], to) IN
       IF i = 0 THEN {} ELSE {g.adjacencyList[String(from)][i].weight}

getNodes(g) == g.nodes

nodeCount(g) == Len(g.nodes)

(* edgeCount / 2 is a JS number, not an integer: kept as a fraction. *)
totalEdgeCount(g) ==
  IF g.config.directed THEN [num |-> g.edgeCount, den |-> 1]
  ELSE [num |-> g.edgeCount, den |-> 2]

isDirected(g) == g.config.directed

(* getEdges: the canonical key is `${from}->${to}` when directed and       *)
(* [from, to].sort().join("-") otherwise; the default sort compares the    *)
(* strings of the ids.  A key is modelled by the pair of id strings.       *)
edgeKey(g, from, to) ==
  IF g.config.directed THEN <<String(from), String(to)>>
  ELSE IF String(to) < String(from) THEN <<String(to), String(from)>>
  ELSE <<String(from), String(to)>>

(* weight === 1 ? undefined : weight; an absent weight is an absent field. *)
EdgeOf(from, to, weight) ==
  IF weight = 1 THEN [from |-> from, to |-> to]
  ELSE [from |-> from, to |-> to, weight |-> weight]

RECURSIVE getEdgesInner(_, _, _, _)
getEdgesInner(g, from, j, acc) ==
  LET list == g.adjacencyList[String(from)] IN
  IF j > Len(list) THEN acc
  ELSE
    LET to == list[j].node
        key == edgeKey(g, from, to)
    IN
    IF key \in acc.seen THEN getEdgesInner(g, from, j + 1, acc)
    ELSE getEdgesInner(g, from, j + 1,
           [edges |-> Append(acc.edges, EdgeOf(from, to, list[j].weight)),
            seen |-> acc.seen \cup {key}])

RECURSIVE getEdgesOuter(_, _, _)
getEdgesOuter(g, i, acc) ==
  IF i > Len(g.nodes) THEN [threw |-> FALSE, edges |-> acc.edges]
  ELSE IF String(g.nodes[i]) \notin DOMAIN g.adjacencyList
       THEN [threw |-> TRUE, edges |-> <<>>]
  ELSE getEdgesOuter(g, i + 1, getEdgesInner(g, g.nodes[i], 1, acc))

getEdges(g) == getEdgesOuter(g, 1, [edges |-> <<>>, seen |-> {}])

----------------------------------------------------------------------------
(* The state machine: one Graph instance and the calls made on it *)

this ==
  [adjacencyList |-> adjacencyList, nodes |-> nodes,
   edgeCount |-> edgeCount, config |-> config]

NoResult == [alg |-> "none"]

Configs ==
  [directed : BOOLEAN, weighted : {FALSE}, allowSelfLoops : BOOLEAN,
   allowMultipleEdges : BOOLEAN]

(* The graph store is empty and no saveGraph call is under way. *)
GraphIds == {"g1", "g2", "g3"}
MaxAccessCount == 2

NoStorage ==
  /\ localStorage = [graphs |-> {}, item |-> [id \in {} |-> {}]]
  /\ calls = [id \in GraphIds |-> [pc |-> "idle"]]

InitWith(cfgs) ==
  /\ config \in cfgs
  /\ adjacencyList = <<>>
  /\ nodes = <<>>
  /\ edgeCount = 0
  /\ NoStorage
  /\ result = NoResult

Init == InitWith(Configs)

(* A call that changes the graph; it returns nothing.  The caller has      *)
(* taken the result of an earlier algorithm call before it goes on.        *)
Becomes(g) ==
  /\ result = NoResult
  /\ adjacencyList' = g.adjacencyList
  /\ nodes' = g.nodes
  /\ edgeCount' = g.edgeCount
  /\ config' = g.config
  /\ result' = NoResult
  /\ UNCHANGED <<localStorage, calls>>

WithinBounds(g) ==
  /\ g.edgeCount <= MaxEdgeCount
  /\ \A k \in DOMAIN g.adjacencyList : Len(g.adjacencyList[k]) <= MaxSlots

AddNode(id) == Becomes(addNode(this, id))

AddEdge(from, to, weight) ==
  LET r == addEdge(this, from, to, weight) IN
  /\ WithinBounds(r.graph)
  /\ Becomes(r.graph)

RemoveEdge(from, to) == Becomes(removeEdge(this, from, to).graph)

RemoveNode(id) == Becomes(removeNode(this, id).graph)

Mutate(ids, ws) ==
  \/ \E id \in ids : AddNode(id)
  \/ \E from \in ids, to \in ids, weight \in ws : AddEdge(from, to, weight)
  \/ \E from \in ids, to \in ids : RemoveEdge(from, to)
  \/ \E id \in ids : RemoveNode(id)

Next == Mutate(NodeId, Weights)

Spec == Init /\ [][Next]_vars

----------------------------------------------------------------------------
(* Step records.  Every algorithm with the recordSteps option keeps         *)
(* "const steps = []" and "let stepCount = 0" and, when the option is set,  *)
(* records with steps.push({ step: stepCount++, ... }).  The state of a     *)
(* run carries record (the option), steps and stepCount.  Of a step the     *)
(* model keeps step, action and the node or edge it is about (for bfs the   *)
(* queue and visited snapshots too).                                       *)
Recording(record) == [record |-> record, steps |-> <<>>, stepCount |-> 0]

pushStep(st, fields) ==
  IF st.record
  THEN [st EXCEPT !.steps = Append(@, [step |-> st.stepCount] @@ fields),
                  !.stepCount = @ + 1]
  ELSE st

(* steps: options?.recordSteps ? steps : undefined *)
stepsOrUndefined(st) == IF st.record THEN {st.steps} ELSE {}

----------------------------------------------------------------------------
(* Traversal: bfs, dfs, dfsIterative *)

RECURSIVE bfsNeighbors_VisitedAtDequeue(_, _, _)
bfsNeighbors_VisitedAtDequeue(list, i, st) ==
  IF i > Len(list) THEN st
  ELSE IF list[i].node \in Range(st.order)
  THEN bfsNeighbors_VisitedAtDequeue(list, i + 1, st)
  ELSE
    LET st1 == [st EXCEPT !.visited = Range(st.order),
                          !.queue = Append(@, list[i].node)]
    IN bfsNeighbors_VisitedAtDequeue(list, i + 1,
         pushStep(st1, [action |-> "visit", node |-> list[i].node,
                        queue |-> st1.queue, visited |-> st1.visited]))

RECURSIVE bfsNeighbors(_, _, _)
bfsNeighbors(list, i, st) ==
  IF i > Len(list) THEN st
  ELSE IF list[i].node \in st.visited THEN bfsNeighbors(list, i + 1, st)
  ELSE
    LET st1 == [st EXCEPT !.visited = @ \cup {list[i].node},
                          !.queue = Append(@, list[i].node)]
    IN bfsNeighbors(list, i + 1,
         pushStep(st1, [action |-> "visit", node |-> list[i].node,
                        queue |-> st1.queue, visited |-> st1.visited]))

RECURSIVE bfsLoop(_, _)
bfsLoop(g, st) ==
  IF st.queue = <<>> THEN st
  ELSE
    LET current == Head(st.queue)
        st1 == [st EXCEPT !.queue = Tail(@), !.order = Append(@, current)]
        st2 == pushStep(st1, [action |-> "explore", node |-> current,
                              queue |-> st1.queue, visited |-> st1.visited])
    IN bfsLoop(g, bfsNeighbors(getNeighbors(g, current), 1, st2))

bfsRun(g, start, record) ==
  LET st == bfsLoop(g,
              pushStep([visited |-> {start}, queue |-> <<start>>, order |-> <<>>]
                         @@ Recording(record),
                       [action |-> "visit", node |-> start,
                        queue |-> <<start>>, visited |-> {start}]))
  IN [order |-> st.order, steps |-> stepsOrUndefined(st)]

bfs(g, start) == [order |-> bfsRun(g, start, FALSE).order]

RECURSIVE dfsRecursive(_, _, _)
RECURSIVE dfsRecursiveNeighbors(_, _, _, _)
dfsRecursive(g, node, st) ==
  LET st1 == pushStep([st EXCEPT !.visited = @ \cup {node}, !.order = Append(@, node)],
                      [action |-> "visit", node |-> node])
      st2 == dfsRecursiveNeighbors(g, getNeighbors(g, node), 1, st1)
  IN pushStep(st2, [action |-> "backtrack", node |-> node])

dfsRecursiveNeighbors(g, list, i, st) ==
  IF i > Len(list) THEN st
  ELSE IF list[i].node \in st.visited THEN dfsRecursiveNeighbors(g, list, i + 1, st)
  ELSE dfsRecursiveNeighbors(g, list, i + 1,
         dfsRecursive(g, list[i].node,
                      pushStep(st, [action |-> "explore", node |-> list[i].node])))

dfsRun(g, start, record) ==
  LET st == dfsRecursive(g, start, [visited |-> {}, order |-> <<>>] @@ Recording(record))
  IN [order |-> st.order, steps |-> stepsOrUndefined(st)]

dfs(g, start) == [order |-> dfsRun(g, start, FALSE).order]

(* for (let i = neighbors.length - 1; i >= 0; i--) push if not visited;    *)
(* the top of the stack is the last element.                               *)
RECURSIVE pushReversed_Forward(_, _, _, _)
pushReversed_Forward(list, i, visited, stack) ==
  IF i < 1 THEN stack
  ELSE IF list[i].node \in visited THEN pushReversed_Forward(list, i - 1, visited, stack)
  ELSE Append(pushReversed_Forward(list, i - 1, visited, stack), list[i].node)

RECURSIVE pushReversed(_, _, _, _)
pushReversed(list, i, visited, stack) ==
  IF i < 1 THEN stack
  ELSE IF list[i].node \in visited THEN pushReversed(list, i - 1, visited, stack)
  ELSE pushReversed(list, i - 1, visited, Append(stack, list[i].node))

RECURSIVE dfsIterativeLoop(_, _)
dfsIterativeLoop(g, st) ==
  IF st.stack = <<>> THEN st
  ELSE
    LET current == st.stack[Len(st.stack)]
        rest == SubSeq(st.stack, 1, Len(st.stack) - 1)
    IN
    IF current \in st.visited THEN dfsIterativeLoop(g, [st EXCEPT !.stack = rest])
    ELSE
      LET visited == st.visited \cup {current}
          st1 == pushStep([st EXCEPT !.visited = visited, !.order = Append(@, current),
                                     !.stack = rest],
                          [action |-> "visit", node |-> current])
      IN
      dfsIterativeLoop(g,
        [st1 EXCEPT !.stack = pushReversed(getNeighbors(g, current),
                                           Len(getNeighbors(g, current)), visited, rest)])

dfsIterativeRun(g, start, record) ==
  LET st == dfsIterativeLoop(g, [visited |-> {}, stack |-> <<start>>, order |-> <<>>]
                                  @@ Recording(record))
  IN [order |-> st.order, steps |-> stepsOrUndefined(st)]

dfsIterative(g, start) == [order |-> dfsIterativeRun(g, start, FALSE).order]

(* A call of an algorithm leaves the graph alone and yields its result. *)
Returns(r) ==
  /\ result = NoResult
  /\ result' = r
  /\ UNCHANGED <<adjacencyList, nodes, edgeCount, config, localStorage, calls>>

(* The caller has rendered the result and lets go of it. *)
Discard ==
  /\ result # NoResult
  /\ result' = NoResult
  /\ UNCHANGED <<adjacencyList, nodes, edgeCount, config, localStorage, calls>>

Bfs(start) == Returns([alg |-> "bfs", start |-> start, order |-> bfs(this, start).order])

Dfs(start) == Returns([alg |-> "dfs", start |-> start, order |-> dfs(this, start).order])

DfsIterative(start) ==
  Returns([alg |-> "dfsIterative", start |-> start, order |-> dfsIterative(this, start).order])

(* Self-loops allowed (the default): a graph built with allowSelfLoops =   *)
(* false is also built by the same calls with allowSelfLoops = true.       *)
AlgConfigs == {c \in Configs : c.allowSelfLoops}

UnitWeights == {1}

NextTraversal ==
  \/ Mutate(NumIds, UnitWeights)
  \/ \E start \in NumIds : Bfs(start)
  \/ \E start \in NumIds : Dfs(start)
  \/ \E start \in NumIds : DfsIterative(start)
  \/ Discard

SpecTraversal == InitWith(AlgConfigs) /\ [][NextTraversal]_vars

----------------------------------------------------------------------------
(* Ids of both kinds: the number 1, the string "1" and the number 2.  The  *)
(* ids 1 and "1" share the adjacency key "1", and a removeEdge that finds  *)
(* a slot decrements edgeCount whether or not addEdge counted that slot,   *)
(* so the counter is capped from below as well.                            *)

AliasIds == {1, 11, 2}

MaxDeficit == 1

NextAlias ==
  \/ Mutate(AliasIds, UnitWeights) /\ edgeCount' >= -MaxDeficit
  \/ \E start \in AliasIds : Bfs(start)
  \/ \E start \in AliasIds : Dfs(start)
  \/ \E start \in AliasIds : DfsIterative(start)
  \/ Discard

SpecAlias == InitWith(AlgConfigs) /\ [][NextAlias]_vars

----------------------------------------------------------------------------
(* Shortest paths: PriorityQueue, dijkstra, reconstructPath,               *)
(* toAdjacencyMatrix, floydWarshall.                                       *)
(* A Map is a function on its keys; T | null and T | undefined are sets    *)
(* with at most one element.                                               *)

MapGet(map, k) == IF k \in DOMAIN map THEN {map[k]} ELSE {}

(* Infinity + x = Infinity for every finite x. *)
Plus(a, b) == IF a = Infinity \/ b = Infinity THEN Infinity ELSE a + b

(* push, then a stable sort by priority: the new item goes behind every    *)
(* item whose priority is not larger.                                      *)
enqueue(items, element, priority) ==
  LET before == SelectSeq(items, LAMBDA it : it.priority <= priority)
      after == SelectSeq(items, LAMBDA it : it.priority > priority)
  IN before \o <<[element |-> element, priority |-> priority]>> \o after

RECURSIVE relaxNeighbors(_, _, _, _, _)
relaxNeighbors(list, i, current, currentDist, st) ==
  IF i > Len(list) THEN st
  ELSE
    LET neighbor == list[i].node
        newDist == Plus(currentDist, list[i].weight)
        oldDist == MapGet(st.distances, neighbor)
    IN
    IF oldDist # {} /\ \A d \in oldDist : newDist < d
    THEN relaxNeighbors(list, i + 1, current, currentDist,
           pushStep([st EXCEPT !.distances = Put(@, neighbor, newDist),
                               !.previous = Put(@, neighbor, {current}),
                               !.pq = enqueue(@, neighbor, newDist)],
                    [action |-> "relax", currentNode |-> current, neighbor |-> neighbor]))
    ELSE relaxNeighbors(list, i + 1, current, currentDist,
           pushStep(st, [action |-> "skip", currentNode |-> current,
                         neighbor |-> neighbor]))

RECURSIVE dijkstraLoop(_, _, _)
dijkstraLoop(g, end, st) ==
  IF st.pq = <<>> THEN st
  ELSE
    LET current == Head(st.pq).element
        currentDist == st.distances[current]
        st1 == [st EXCEPT !.pq = Tail(@)]
    IN
    IF current \in st1.visited THEN dijkstraLoop(g, end, st1)
    ELSE
      LET st2 == pushStep([st1 EXCEPT !.visited = @ \cup {current}],
                          [action |-> "process", currentNode |-> current])
      IN
      IF end = {current} THEN st2
      ELSE IF currentDist = Infinity THEN dijkstraLoop(g, end, st2)
      ELSE dijkstraLoop(g, end,
             relaxNeighbors(getNeighbors(g, current), 1, current, currentDist, st2))

(* while (current !== null) { path.unshift(current); if (current ===       *)
(* start) break; current = previous.get(current) ?? null }.  The next      *)
(* value of current depends on current alone, so the loop never ends once  *)
(* current takes a value it had before: returns = FALSE then.              *)
RECURSIVE reconstructPathLoop(_, _, _, _)
reconstructPathLoop(previous, start, current, path) ==
  IF current = {} THEN [returns |-> TRUE, path |-> path]
  ELSE
    LET c == CHOOSE x \in current : TRUE
        path1 == <<c>> \o path
    IN
    IF c \in Range(path) THEN [returns |-> FALSE, path |-> <<>>]
    ELSE IF c = start THEN [returns |-> TRUE, path |-> path1]
    ELSE reconstructPathLoop(previous, start,
           IF c \in DOMAIN previous THEN previous[c] ELSE {}, path1)

reconstructPath(previous, start, end) ==
  LET r == reconstructPathLoop(previous, start, {end}, <<>>) IN
  IF ~r.returns THEN r
  ELSE IF r.path = <<>> \/ r.path[1] # start THEN [returns |-> TRUE, path |-> <<>>]
  ELSE r

dijkstraRun(g, start, end, record) ==
  dijkstraLoop(g, end,
    [distances |-> Put([n \in Range(getNodes(g)) |-> Infinity], start, 0),
     previous |-> [n \in Range(getNodes(g)) |-> {}],
     pq |-> enqueue(<<>>, start, 0),
     visited |-> {}] @@ Recording(record))

(* dijkstra(graph, start, end) with end given: distance is                 *)
(* distances.get(end), a set that is empty when the Map has no such key.   *)
dijkstraWith(g, start, end, record) ==
  LET st == dijkstraRun(g, start, {end}, record)
      r == reconstructPath(st.previous, start, end)
  IN [returns |-> r.returns, path |-> r.path, distance |-> MapGet(st.distances, end),
      steps |-> stepsOrUndefined(st)]

dijkstra(g, start, end) ==
  LET r == dijkstraWith(g, start, end, FALSE) IN
  [returns |-> r.returns, path |-> r.path, distance |-> r.distance]

(* dijkstra(graph, start) without end: a Map with an entry for every node  *)
(* of the graph but start.                                                 *)
dijkstraAll(g, start) ==
  LET st == dijkstraRun(g, start, {}, FALSE)
      others == Range(getNodes(g)) \ {start}
  IN
  [returns |-> \A node \in others : reconstructPath(st.previous, start, node).returns,
   paths |-> [node \in others |->
                [path |-> reconstructPath(st.previous, start, node).path,
                 distance |-> MapGet(st.distances, node)]]]

IndexOf(seq, x) ==
  IF \E i \in 1..Len(seq) : seq[i] = x
  THEN CHOOSE i \in 1..Len(seq) : seq[i] = x /\ \A j \in 1..(i - 1) : seq[j] # x
  ELSE 0

RECURSIVE fillRow(_, _, _, _)
fillRow(ns, list, k, row) ==
  IF k > Len(list) THEN row
  ELSE
    LET j == IndexOf(ns, list[k].node) IN
    fillRow(ns, list, k + 1, IF j # 0 THEN [row EXCEPT ![j] = list[k].weight] ELSE row)

toAdjacencyMatrix(g) ==
  LET ns == getNodes(g)
      n == Len(ns)
  IN
  [nodes |-> ns,
   matrix |-> [i \in 1..n |->
                 fillRow(ns, getNeighbors(g, ns[i]), 1,
                         [j \in 1..n |-> IF i = j THEN 0 ELSE Infinity])]]

(* The loops for k, for i, for j, as one walk over t = 0 .. n^3 - 1. *)
RECURSIVE floydWarshallLoop(_, _, _)
floydWarshallLoop(n, t, st) ==
  IF t >= n * n * n THEN st
  ELSE
    LET k == (t \div (n * n)) + 1
        i == ((t \div n) % n) + 1
        j == (t % n) + 1
        oldDist == st.matrix[i][j]
        newDist == Plus(st.matrix[i][k], st.matrix[k][j])
    IN
    IF newDist < oldDist
    THEN floydWarshallLoop(n, t + 1,
           pushStep([st EXCEPT !.matrix[i][j] = newDist,
                               !.next[i][j] = st.next[i][k]],
                    [action |-> "update", k |-> k - 1, i |-> i - 1, j |-> j - 1]))
    ELSE IF oldDist # Infinity
    THEN floydWarshallLoop(n, t + 1,
           pushStep(st, [action |-> "skip", k |-> k - 1, i |-> i - 1, j |-> j - 1]))
    ELSE floydWarshallLoop(n, t + 1, st)

floydWarshallWith(g, record) ==
  LET am == toAdjacencyMatrix(g)
      n == Len(am.nodes)
      next0 == [i \in 1..n |-> [j \in 1..n |->
                  IF i # j /\ am.matrix[i][j] # Infinity THEN {am.nodes[j]} ELSE {}]]
      st == floydWarshallLoop(n, 0, [matrix |-> am.matrix, next |-> next0]
                                      @@ Recording(record))
  IN [distances |-> st.matrix, next |-> st.next, nodes |-> am.nodes,
      steps |-> stepsOrUndefined(st)]

floydWarshall(g) ==
  LET r == floydWarshallWith(g, FALSE) IN
  [distances |-> r.distances, next |-> r.next, nodes |-> r.nodes]

Dijkstra(start, end) ==
  LET r == dijkstra(this, start, end) IN
  Returns([alg |-> "dijkstra", start |-> start, end |-> end, returns |-> r.returns,
           path |-> r.path, distance |-> r.distance])

DijkstraAll(start) ==
  LET r == dijkstraAll(this, start) IN
  Returns([alg |-> "dijkstraAll", start |-> start, returns |-> r.returns, paths |-> r.paths])

FloydWarshall ==
  LET r == floydWarshall(this) IN
  Returns([alg |-> "floydWarshall", distances |-> r.distances,
           next |-> r.next, nodes |-> r.nodes])

PathWeights == {1, 3}

(* Graphs are built over every id of NumIds in every insertion order, so   *)
(* each graph shape occurs with node 1 in every position: one start node   *)
(* reaches every case of dijkstra up to a renaming of the ids.             *)
PathStarts == {1}

NextPath ==
  \/ Mutate(NumIds, PathWeights)
  \/ \E start \in PathStarts, end \in NumIds : Dijkstra(start, end)
  \/ \E start \in PathStarts : DijkstraAll(start)
  \/ FloydWarshall
  \/ Discard

SpecPath == InitWith(AlgConfigs) /\ [][NextPath]_vars

----------------------------------------------------------------------------
(* bellmanFord, and the runs on graphs with negative weights.              *)

(* distances.get(u)! + weight < distances.get(v)!, false when a key is     *)
(* missing (undefined + weight is NaN, and x < undefined is false).        *)
canRelax(distances, edge) ==
  /\ edge.from \in DOMAIN distances
  /\ edge.to \in DOMAIN distances
  /\ Plus(distances[edge.from], IF "weight" \in DOMAIN edge THEN edge.weight ELSE 1)
       < distances[edge.to]

RECURSIVE relaxEdges(_, _, _)
relaxEdges(edges, k, st) ==
  IF k > Len(edges) THEN st
  ELSE IF canRelax(st.distances, edges[k])
  THEN relaxEdges(edges, k + 1,
         [distances |-> Put(st.distances, edges[k].to,
                            Plus(st.distances[edges[k].from],
                                 IF "weight" \in DOMAIN edges[k] THEN edges[k].weight ELSE 1)),
          previous |-> Put(st.previous, edges[k].to, {edges[k].from})])
  ELSE relaxEdges(edges, k + 1, st)

(* for (let i = 0; i < nodes.length - 1; i++) *)
RECURSIVE relaxRounds(_, _, _, _)
relaxRounds(edges, n, i, st) ==
  IF i >= n - 1 THEN st ELSE relaxRounds(edges, n, i + 1, relaxEdges(edges, 1, st))

(* Map<NodeId, PathResult> | null: a set with at most one element. *)
bellmanFord(g, start) ==
  LET ns == getNodes(g)
      edges == getEdges(g).edges
      st == relaxRounds(edges, Len(ns), 0,
              [distances |-> Put([n \in Range(ns) |-> Infinity], start, 0),
               previous |-> [n \in Range(ns) |-> {}]])
      others == Range(ns) \ {start}
  IN
  IF \E k \in 1..Len(edges) : canRelax(st.distances, edges[k])
  THEN [returns |-> TRUE, value |-> {}]
  ELSE [returns |-> \A node \in others : reconstructPath(st.previous, start, node).returns,
        value |-> {[node \in others |->
                     [path |-> reconstructPath(st.previous, start, node).path,
                      distance |-> MapGet(st.distances, node)]]}]

BellmanFord(start) ==
  LET r == bellmanFord(this, start) IN
  Returns([alg |-> "bellmanFord", start |-> start, returns |-> r.returns, value |-> r.value])

NegWeights == {-1, 1}

NextNegative ==
  \/ Mutate(NumIds, NegWeights)
  \/ \E start \in PathStarts, end \in NumIds : Dijkstra(start, end)
  \/ \E start \in PathStarts : DijkstraAll(start)
  \/ \E start \in PathStarts : BellmanFord(start)
  \/ Discard

SpecNegative == InitWith(AlgConfigs) /\ [][NextNegative]_vars

(* bellmanFord on the graphs of SpecPath, whose weights are positive. *)
NextBellman ==
  \/ Mutate(NumIds, PathWeights)
  \/ \E start \in PathStarts : BellmanFord(start)
  \/ Discard

SpecBellman == InitWith(AlgConfigs) /\ [][NextBellman]_vars

----------------------------------------------------------------------------
(* Spanning trees: UnionFind, kruskal, prim.                               *)
(* Map.get of a missing key yields undefined, and undefined can itself be  *)
(* a key (find(undefined), parent.set(undefined, ..)); it is modelled by   *)
(* the value 0, which is no node id.                                       *)

undefined == 0

Get(map, k) == IF k \in DOMAIN map THEN map[k] ELSE undefined

EdgeWeight(e) == IF "weight" \in DOMAIN e THEN e.weight ELSE 1

NewUnionFind(ns) ==
  [parent |-> [n \in Range(ns) |-> n], rank |-> [n \in Range(ns) |-> 0]]

(* find with path compression: the Maps after the call and the root. *)
RECURSIVE find(_, _)
find(uf, node) ==
  IF Get(uf.parent, node) # node
  THEN LET r == find(uf, Get(uf.parent, node))
           uf1 == [r.uf EXCEPT !.parent = Put(@, node, r.root)]
       IN [uf |-> uf1, root |-> Get(uf1.parent, node)]
  ELSE [uf |-> uf, root |-> Get(uf.parent, node)]

(* rank1 < rank2 and rank1 > rank2 are both false when a rank is undefined *)
union(uf, node1, node2) ==
  LET f1 == find(uf, node1)
      f2 == find(f1.uf, node2)
      root1 == f1.root
      root2 == f2.root
      u == f2.uf
      has1 == root1 \in DOMAIN u.rank
      has2 == root2 \in DOMAIN u.rank
  IN
  IF root1 = root2 THEN [uf |-> u, united |-> FALSE]
  ELSE IF has1 /\ has2 /\ u.rank[root1] < u.rank[root2]
       THEN [uf |-> [u EXCEPT !.parent = Put(@, root1, root2)], united |-> TRUE]
  ELSE IF has1 /\ has2 /\ u.rank[root1] > u.rank[root2]
       THEN [uf |-> [u EXCEPT !.parent = Put(@, root2, root1)], united |-> TRUE]
  ELSE [uf |-> [u EXCEPT !.parent = Put(@, root2, root1),
                         !.rank = Put(@, root1, IF has1 THEN u.rank[root1] + 1 ELSE undefined)],
        united |-> TRUE]

(* Array.prototype.sort with a comparator is stable: insertion behind the  *)
(* items that do not compare larger.                                       *)
RECURSIVE stableSort(_)
stableSort(items) ==
  IF items = <<>> THEN <<>>
  ELSE
    LET n == Len(items)
        sorted == stableSort(SubSeq(items, 1, n - 1))
        x == items[n]
    IN SelectSeq(sorted, LAMBDA y : y.key <= x.key) \o <<x>>
       \o SelectSeq(sorted, LAMBDA y : y.key > x.key)

(* [...edges].sort((a, b) => (a.weight ?? 1) - (b.weight ?? 1)) *)
sortEdges(edges) ==
  LET sorted == stableSort([i \in 1..Len(edges) |->
                              [key |-> EdgeWeight(edges[i]), value |-> edges[i]]])
  IN [i \in 1..Len(sorted) |-> sorted[i].value]

(* pq.sort((a, b) => a.weight - b.weight) *)
sortPq(pq) ==
  LET sorted == stableSort([i \in 1..Len(pq) |-> [key |-> pq[i].weight, value |-> pq[i]]])
  IN [i \in 1..Len(sorted) |-> sorted[i].value]

RECURSIVE kruskalLoop(_, _, _, _)
kruskalLoop(n, sortedEdges, i, st) ==
  IF i > Len(sortedEdges) THEN st
  ELSE
    LET edge == sortedEdges[i]
        f1 == find(st.uf, edge.from)
        f2 == find(f1.uf, edge.to)
    IN
    IF f1.root # f2.root
    THEN
      LET st1 == pushStep([st EXCEPT !.uf = union(f2.uf, edge.from, edge.to).uf,
                                     !.mstEdges = Append(@, edge),
                                     !.totalWeight = @ + EdgeWeight(edge)],
                          [action |-> "add", edge |-> edge])
      IN IF Len(st1.mstEdges) = n - 1 THEN st1
         ELSE kruskalLoop(n, sortedEdges, i + 1, st1)
    ELSE kruskalLoop(n, sortedEdges, i + 1,
           pushStep([st EXCEPT !.uf = f2.uf], [action |-> "skip", edge |-> edge]))

Thrown == [threw |-> TRUE, edges |-> <<>>, totalWeight |-> 0, steps |-> {}]

kruskalWith(g, record) ==
  IF isDirected(g) THEN Thrown
  ELSE IF getEdges(g).threw THEN Thrown
  ELSE
    LET ns == getNodes(g)
        sortedEdges == sortEdges(getEdges(g).edges)
        st == kruskalLoop(Len(ns), sortedEdges, 1,
                [uf |-> NewUnionFind(ns), mstEdges |-> <<>>, totalWeight |-> 0]
                  @@ Recording(record))
    IN [threw |-> FALSE, edges |-> st.mstEdges, totalWeight |-> st.totalWeight,
        steps |-> stepsOrUndefined(st)]

kruskal(g) ==
  LET r == kruskalWith(g, FALSE) IN
  [threw |-> r.threw, edges |-> r.edges, totalWeight |-> r.totalWeight]

RECURSIVE primPush(_, _, _, _, _)
primPush(list, i, from, visited, pq) ==
  IF i > Len(list) THEN pq
  ELSE IF list[i].node \in visited THEN primPush(list, i + 1, from, visited, pq)
  ELSE primPush(list, i + 1, from, visited,
         Append(pq, [edge |-> [from |-> from, to |-> list[i].node, weight |-> list[i].weight],
                     weight |-> list[i].weight]))

RECURSIVE primLoop(_, _, _)
primLoop(g, n, st) ==
  IF ~(Len(st.pq) > 0 /\ Cardinality(st.visited) < n) THEN st
  ELSE
    LET sorted == sortPq(st.pq)
        edge == Head(sorted).edge
        weight == Head(sorted).weight
        rest == Tail(sorted)
    IN
    IF edge.to \in st.visited
    THEN primLoop(g, n, pushStep([st EXCEPT !.pq = rest],
                                 [action |-> "skip", edge |-> edge]))
    ELSE
      LET visited == st.visited \cup {edge.to}
          st1 == pushStep([st EXCEPT !.visited = visited,
                                     !.mstEdges = Append(@, edge),
                                     !.totalWeight = @ + weight,
                                     !.pq = rest],
                          [action |-> "add", edge |-> edge])
      IN
      primLoop(g, n,
        [st1 EXCEPT !.pq = primPush(getNeighbors(g, edge.to), 1, edge.to, visited, rest)])

(* start is NodeId | undefined: a set with at most one element. *)
primWith(g, start, record) ==
  IF isDirected(g) THEN Thrown
  ELSE IF Len(getNodes(g)) = 0
  THEN [threw |-> FALSE, edges |-> <<>>, totalWeight |-> 0, steps |-> {}]
  ELSE
    LET ns == getNodes(g)
        startNode == IF start = {} THEN ns[1] ELSE CHOOSE x \in start : TRUE
        pq0 == primPush(getNeighbors(g, startNode), 1, startNode, {}, <<>>)
        st == primLoop(g, Len(ns),
                [visited |-> {startNode}, mstEdges |-> <<>>, totalWeight |-> 0, pq |-> pq0]
                  @@ Recording(record))
    IN [threw |-> FALSE, edges |-> st.mstEdges, totalWeight |-> st.totalWeight,
        steps |-> stepsOrUndefined(st)]

prim(g, start) ==
  LET r == primWith(g, start, FALSE) IN
  [threw |-> r.threw, edges |-> r.edges, totalWeight |-> r.totalWeight]

Kruskal ==
  LET r == kruskal(this) IN
  Returns([alg |-> "kruskal", threw |-> r.threw, edges |-> r.edges,
           totalWeight |-> r.totalWeight])

Prim(start) ==
  LET r == prim(this, start) IN
  Returns([alg |-> "prim", start |-> start, threw |-> r.threw, edges |-> r.edges,
           totalWeight |-> r.totalWeight])

NextSpanning ==
  \/ Mutate(NumIds, Weights)
  \/ Kruskal
  \/ \E start \in {{}} \cup {{n} : n \in NumIds} : Prim(start)
  \/ Discard

SpecSpanning == InitWith(AlgConfigs) /\ [][NextSpanning]_vars

----------------------------------------------------------------------------
(* Graph properties: calculateDensity, isTree.                             *)
(* A JS number that need not be whole is kept as a fraction.               *)

calculateDensity(g) ==
  LET n == nodeCount(g)
      maxEdges == n * (n - 1)
      actualEdges == totalEdgeCount(g)
  IN
  IF n <= 1 THEN [num |-> 0, den |-> 1]
  ELSE IF isDirected(g) THEN [num |-> actualEdges.num, den |-> actualEdges.den * maxEdges]
  ELSE [num |-> 2 * actualEdges.num, den |-> actualEdges.den * maxEdges]

RECURSIVE isTreePush(_, _, _, _)
isTreePush(list, i, visited, stack) ==
  IF i > Len(list) THEN stack
  ELSE IF list[i].node \in visited THEN isTreePush(list, i + 1, visited, stack)
  ELSE isTreePush(list, i + 1, visited, Append(stack, list[i].node))

RECURSIVE isTreeLoop(_, _)
isTreeLoop(g, st) ==
  IF st.stack = <<>> THEN st
  ELSE
    LET current == st.stack[Len(st.stack)]
        rest == SubSeq(st.stack, 1, Len(st.stack) - 1)
    IN
    IF current \in st.visited THEN isTreeLoop(g, [st EXCEPT !.stack = rest])
    ELSE
      LET visited == st.visited \cup {current} IN
      isTreeLoop(g, [visited |-> visited,
                     stack |-> isTreePush(getNeighbors(g, current), 1, visited, rest)])

isTree(g) ==
  LET ns == getNodes(g)
      n == Len(ns)
  IN
  IF isDirected(g) THEN FALSE
  ELSE IF n = 0 THEN TRUE
  ELSE IF n = 1 THEN TRUE
  ELSE IF totalEdgeCount(g).num # (n - 1) * totalEdgeCount(g).den THEN FALSE
  ELSE Cardinality(isTreeLoop(g, [visited |-> {}, stack |-> <<ns[1]>>]).visited) = n

(* isBipartite: color is a Map, whose entries() come in insertion order;   *)
(* it is kept as the sequence of its keys and the function on them.        *)
RECURSIVE colorNeighbors(_, _, _, _)
colorNeighbors(list, i, currentColor, st) ==
  IF i > Len(list) THEN st
  ELSE
    LET neighbor == list[i].node IN
    IF neighbor \notin DOMAIN st.color
    THEN colorNeighbors(list, i + 1, currentColor,
           [st EXCEPT !.color = Put(@, neighbor, 1 - currentColor),
                      !.keys = Append(@, neighbor),
                      !.queue = Append(@, neighbor)])
    ELSE IF st.color[neighbor] = currentColor THEN [st EXCEPT !.isBipartite = FALSE]
    ELSE colorNeighbors(list, i + 1, currentColor, st)

RECURSIVE colorLoop(_, _)
colorLoop(g, st) ==
  IF st.queue = <<>> \/ ~st.isBipartite THEN st
  ELSE
    LET current == Head(st.queue)
        currentColor == st.color[current]
    IN colorLoop(g, colorNeighbors(getNeighbors(g, current), 1, currentColor,
                                   [st EXCEPT !.queue = Tail(@)]))

RECURSIVE colorStarts(_, _, _)
colorStarts(g, i, st) ==
  IF i > Len(getNodes(g)) \/ ~st.isBipartite THEN st
  ELSE
    LET start == getNodes(g)[i] IN
    IF start \in DOMAIN st.color THEN colorStarts(g, i + 1, st)
    ELSE colorStarts(g, i + 1,
           colorLoop(g, [st EXCEPT !.queue = <<start>>,
                                   !.color = Put(@, start, 0),
                                   !.keys = Append(@, start)]))

(* partitions is absent when isBipartite is false: a set with at most one  *)
(* element.                                                                *)
isBipartite(g) ==
  LET st == colorStarts(g, 1, [color |-> <<>>, keys |-> <<>>, queue |-> <<>>,
                               isBipartite |-> TRUE])
  IN
  IF ~st.isBipartite THEN [isBipartite |-> FALSE, partitions |-> {}]
  ELSE [isBipartite |-> TRUE,
        partitions |-> {<<SelectSeq(st.keys, LAMBDA n : st.color[n] = 0),
                          SelectSeq(st.keys, LAMBDA n : st.color[n] # 0)>>}]

IsBipartite ==
  LET r == isBipartite(this) IN
  Returns([alg |-> "isBipartite", isBipartite |-> r.isBipartite, partitions |-> r.partitions])

getDegree(g, id) ==
  LET outDegree == Len(getNeighbors(g, id))
      inDegree == IF g.config.directed
                  THEN Cardinality({i \in 1..Len(g.nodes) : hasEdge(g, g.nodes[i], id)})
                  ELSE outDegree
  IN [inDegree |-> inDegree, outDegree |-> outDegree,
      degree |-> IF g.config.directed THEN inDegree + outDegree ELSE outDegree]

(* let minDegree = Infinity; for (const node of nodes) minDegree =         *)
(* Math.min(minDegree, degree)                                             *)
RECURSIVE minDegreeFrom(_, _, _)
minDegreeFrom(g, i, minDegree) ==
  IF i > Len(getNodes(g)) THEN minDegree
  ELSE LET degree == getDegree(g, getNodes(g)[i]).degree IN
       minDegreeFrom(g, i + 1, IF degree < minDegree THEN degree ELSE minDegree)

checkOreTheorem(g, ns) ==
  LET n == Len(ns) IN
  \A i \in 1..n : \A j \in (i + 1)..n :
    LET u == ns[i]
        v == ns[j]
        isAdjacent == \E k \in 1..Len(getNeighbors(g, u)) : getNeighbors(g, u)[k].node = v
    IN ~isAdjacent => ~(getDegree(g, u).degree + getDegree(g, v).degree < n)

(* The reason string is kept as the name of the branch that returned. *)
checkHamiltonianConditions(g) ==
  LET ns == getNodes(g)
      n == Len(ns)
  IN
  IF isDirected(g) THEN [isPossible |-> FALSE, reason |-> "directed"]
  ELSE IF n < 3 THEN [isPossible |-> FALSE, reason |-> "fewer than 3 vertices"]
  ELSE IF 2 * minDegreeFrom(g, 1, Infinity) >= n THEN [isPossible |-> TRUE, reason |-> "Dirac"]
  ELSE IF checkOreTheorem(g, ns) THEN [isPossible |-> TRUE, reason |-> "Ore"]
  ELSE [isPossible |-> FALSE, reason |-> "neither"]

CheckHamiltonianConditions ==
  LET r == checkHamiltonianConditions(this) IN
  Returns([alg |-> "checkHamiltonianConditions", isPossible |-> r.isPossible,
           reason |-> r.reason])

(* findConnectedComponents and isConnected.  dfsVisit works on the shared  *)
(* visited Set, component array and steps array; steps is undefined (no    *)
(* recording) when record is FALSE.  A step keeps its number, action, node *)
(* and component index.                                                    *)
RECURSIVE dfsVisit(_, _, _, _, _, _)
RECURSIVE dfsVisitNeighbors(_, _, _, _, _, _)
dfsVisit(g, node, st, componentIndex, record, stepCount) ==
  LET st1 == [visited |-> st.visited \cup {node},
              component |-> Append(st.component, node),
              steps |-> IF record
                        THEN Append(st.steps, [step |-> stepCount, action |-> "visit_node",
                                               node |-> node, componentIndex |-> componentIndex])
                        ELSE st.steps]
  IN dfsVisitNeighbors(g, getNeighbors(g, node), 1, st1, componentIndex, record)

dfsVisitNeighbors(g, list, i, st, componentIndex, record) ==
  IF i > Len(list) THEN st
  ELSE IF list[i].node \in st.visited
  THEN dfsVisitNeighbors(g, list, i + 1, st, componentIndex, record)
  ELSE dfsVisitNeighbors(g, list, i + 1,
         dfsVisit(g, list[i].node, st, componentIndex, record,
                  IF record THEN Len(st.steps) ELSE 0),
         componentIndex, record)

RECURSIVE componentsFrom_StaleCount(_, _, _, _)
componentsFrom_StaleCount(g, i, st, record) ==
  IF i > Len(getNodes(g)) THEN st
  ELSE
    LET node == getNodes(g)[i] IN
    IF node \in st.visited THEN componentsFrom_StaleCount(g, i + 1, st, record)
    ELSE
      LET steps1 == IF record
                    THEN Append(st.steps, [step |-> st.stepCount, action |-> "start_component",
                                           node |-> node,
                                           componentIndex |-> Len(st.components)])
                    ELSE st.steps
          stepCount1 == IF record THEN st.stepCount + 1 ELSE st.stepCount
          v == dfsVisit(g, node, [visited |-> st.visited, component |-> <<>>, steps |-> steps1],
                        Len(st.components), record, stepCount1)
      IN componentsFrom_StaleCount(g, i + 1,
           [visited |-> v.visited,
            components |-> Append(st.components, v.component),
            steps |-> v.steps,
            stepCount |-> stepCount1],
           record)

RECURSIVE componentsFrom(_, _, _, _)
componentsFrom(g, i, st, record) ==
  IF i > Len(getNodes(g)) THEN st
  ELSE
    LET node == getNodes(g)[i] IN
    IF node \in st.visited THEN componentsFrom(g, i + 1, st, record)
    ELSE
      LET steps1 == IF record
                    THEN Append(st.steps, [step |-> st.stepCount, action |-> "start_component",
                                           node |-> node,
                                           componentIndex |-> Len(st.components)])
                    ELSE st.steps
          stepCount1 == IF record THEN st.stepCount + 1 ELSE st.stepCount
          v == dfsVisit(g, node, [visited |-> st.visited, component |-> <<>>, steps |-> steps1],
                        Len(st.components), record, stepCount1)
      IN componentsFrom(g, i + 1,
           [visited |-> v.visited,
            components |-> Append(st.components, v.component),
            steps |-> v.steps,
            stepCount |-> IF record THEN Len(v.steps) ELSE stepCount1],
           record)

findConnectedComponents(g, record) ==
  LET st == componentsFrom(g, 1, [visited |-> {}, components |-> <<>>, steps |-> <<>>,
                                   stepCount |-> 0], record)
  IN [components |-> st.components,
      count |-> Len(st.components),
      isConnected |-> Len(st.components) <= 1,
      steps |-> IF record THEN {st.steps} ELSE {}]

isConnected(g) ==
  IF nodeCount(g) = 0 THEN TRUE
  ELSE Cardinality(dfsVisit(g, getNodes(g)[1],
                            [visited |-> {}, component |-> <<>>, steps |-> <<>>],
                            0, FALSE, 0).visited) = nodeCount(g)

FindConnectedComponents(record) ==
  LET r == findConnectedComponents(this, record) IN
  Returns([alg |-> "findConnectedComponents", components |-> r.components,
           count |-> r.count, isConnected |-> r.isConnected, steps |-> r.steps])

IsConnected == Returns([alg |-> "isConnected", value |-> isConnected(this)])

CalculateDensity == Returns([alg |-> "calculateDensity", value |-> calculateDensity(this)])

IsTree == Returns([alg |-> "isTree", value |-> isTree(this)])

NextProperties ==
  \/ Mutate(NumIds, UnitWeights)
  \/ CalculateDensity
  \/ IsTree
  \/ IsBipartite
  \/ CheckHamiltonianConditions
  \/ \E record \in BOOLEAN : FindConnectedComponents(record)
  \/ IsConnected
  \/ Discard

SpecProperties == InitWith(AlgConfigs) /\ [][NextProperties]_vars

----------------------------------------------------------------------------
(* clone: a new Graph built by addNode for every node and addEdge for      *)
(* every entry of getEdges().                                              *)

RECURSIVE addNodes(_, _, _)
addNodes(g, ids, i) ==
  IF i > Len(ids) THEN g ELSE addNodes(addNode(g, ids[i]), ids, i + 1)

RECURSIVE addEdges(_, _, _)
addEdges(g, edges, i) ==
  IF i > Len(edges) THEN Ret(g, FALSE)
  ELSE
    LET r == addEdge(g, edges[i].from, edges[i].to, EdgeWeight(edges[i])) IN
    IF r.threw THEN r ELSE addEdges(r.graph, edges, i + 1)

clone(g) ==
  LET newGraph == addNodes(NewGraph(g.config), g.nodes, 1) IN
  IF getEdges(g).threw THEN Ret(newGraph, TRUE)
  ELSE addEdges(newGraph, getEdges(g).edges, 1)

Clone ==
  LET r == clone(this) IN
  Returns([alg |-> "clone", threw |-> r.threw, graph |-> r.graph])

NextClone ==
  \/ Mutate(NumIds, Weights)
  \/ Clone
  \/ Discard

SpecClone == InitWith(AlgConfigs) /\ [][NextClone]_vars

----------------------------------------------------------------------------
(* buildGraphFromData and graphToData.  Of a GraphData record the model    *)
(* keeps nodes, edges and config (id, name and the time stamps are passed  *)
(* through or made up by graphToData and touch nothing else).              *)

MaxDataEdges == 2

buildGraphFromData(data) ==
  addEdges(addNodes(NewGraph(data.config), [i \in 1..Len(data.nodes) |-> data.nodes[i].id], 1),
           data.edges, 1)

configuration(g) == g.config

graphToData(g) ==
  [nodes |-> [i \in 1..Len(getNodes(g)) |-> [id |-> getNodes(g)[i]]],
   edges |-> getEdges(g).edges,
   config |-> configuration(g)]

(* Sequences without repetition over a set of ids. *)
RECURSIVE Arrangements(_)
Arrangements(S) ==
  {<<>>} \cup UNION {{<<x>> \o a : a \in Arrangements(S \ {x})} : x \in S}

(* An Edge with the optional weight absent or given. *)
EdgesOver(ids) ==
  [from : ids, to : ids] \cup [from : ids, to : ids, weight : Weights]

EdgeListsOver(ids) ==
  UNION {[1..n -> EdgesOver(ids)] : n \in 0..MaxDataEdges}

Ends(directed, e) == IF directed THEN <<e.from, e.to>> ELSE {e.from, e.to}

(* The set of weighted edges of an edge list, an absent weight read as 1. *)
WeightedEdges(directed, edges) ==
  {[ends |-> Ends(directed, edges[i]), weight |-> EdgeWeight(edges[i])] : i \in 1..Len(edges)}

(* Edges pairwise distinct and allowed by the configuration. *)
AllowedEdges(cfg, edges) ==
  /\ Cardinality(WeightedEdges(cfg.directed, edges)) = Len(edges)
  /\ cfg.allowSelfLoops \/ \A i \in 1..Len(edges) : edges[i].from # edges[i].to
  /\ cfg.allowMultipleEdges \/
       \A i, j \in 1..Len(edges) :
         Ends(cfg.directed, edges[i]) = Ends(cfg.directed, edges[j]) => i = j

(* The GraphData records of the domain: nodes in any order, every edge     *)
(* endpoint among them, edges pairwise distinct and allowed.               *)
InitData ==
  /\ adjacencyList = <<>>
  /\ nodes = <<>>
  /\ edgeCount = 0
  /\ NoStorage
  /\ \E cfg \in Configs, a \in Arrangements(NumIds) :
       \E es \in EdgeListsOver(Range(a)) :
         /\ AllowedEdges(cfg, es)
         /\ config = cfg
         /\ result = [alg |-> "data",
                      data |-> [nodes |-> [i \in 1..Len(a) |-> [id |-> a[i]]],
                                edges |-> es, config |-> cfg]]

BuildGraphFromData ==
  /\ result.alg = "data"
  /\ LET r == buildGraphFromData(result.data) IN
     /\ adjacencyList' = r.graph.adjacencyList
     /\ nodes' = r.graph.nodes
     /\ edgeCount' = r.graph.edgeCount
     /\ config' = r.graph.config
     /\ result' = [alg |-> "buildGraphFromData", data |-> result.data, threw |-> r.threw]
  /\ UNCHANGED <<localStorage, calls>>

GraphToData ==
  /\ result.alg = "buildGraphFromData"
  /\ ~result.threw
  /\ result' = [alg |-> "graphToData", data |-> result.data, out |-> graphToData(this)]
  /\ UNCHANGED <<adjacencyList, nodes, edgeCount, config, localStorage, calls>>

NextData ==
  \/ BuildGraphFromData
  \/ GraphToData

SpecData == InitData /\ [][NextData]_vars

----------------------------------------------------------------------------
(* parseEdgeInput: the text of the edge box to edges, errors and warnings. *)
(* A JS string is the sequence of its characters.  The parsed node id is   *)
(* kept with its type: a number id by the text String(num) gives for it,   *)
(* which parseNodeId requires to be the very text it parsed.               *)
MaxSegmentLen == 5
MaxInputLen == 7
SegmentChars == {"1", "-", ">", "<", ":", " "}
InputChars == {"1", "-", ",", " "}
Separators == {",", ";", "\n"}
WhiteSpace == {" ", "\t", "\n", "\r"}
DigitValue == [c \in {"0", "1", "2", "3", "4", "5", "6", "7", "8", "9"} |->
                 CASE c = "0" -> 0 [] c = "1" -> 1 [] c = "2" -> 2 [] c = "3" -> 3
                   [] c = "4" -> 4 [] c = "5" -> 5 [] c = "6" -> 6 [] c = "7" -> 7
                   [] c = "8" -> 8 [] c = "9" -> 9]

RECURSIVE trimStart(_)
trimStart(s) ==
  IF s # <<>> /\ s[1] \in WhiteSpace THEN trimStart(Tail(s)) ELSE s

RECURSIVE trimEnd(_)
trimEnd(s) ==
  IF s # <<>> /\ s[Len(s)] \in WhiteSpace THEN trimEnd(SubSeq(s, 1, Len(s) - 1)) ELSE s

trim(s) == trimEnd(trimStart(s))

(* input.split(/[,;\n]+/): a run of separators ends one piece; the pieces  *)
(* before a leading and after a trailing run are empty strings.            *)
RECURSIVE splitFrom(_, _, _, _)
splitFrom(s, i, piece, out) ==
  IF i > Len(s) THEN Append(out, piece)
  ELSE IF s[i] \in Separators
  THEN IF i > 1 /\ s[i - 1] \in Separators
       THEN splitFrom(s, i + 1, piece, out)
       ELSE splitFrom(s, i + 1, <<>>, Append(out, piece))
  ELSE splitFrom(s, i + 1, Append(piece, s[i]), out)

split(s) == splitFrom(s, 1, <<>>, <<>>)

RECURSIVE filterNonEmpty(_)
filterNonEmpty(list) ==
  IF list = <<>> THEN <<>>
  ELSE IF Len(Head(list)) > 0
  THEN <<Head(list)>> \o filterNonEmpty(Tail(list))
  ELSE filterNonEmpty(Tail(list))

segmentsOf(input) ==
  LET pieces == split(input) IN
  filterNonEmpty([i \in 1..Len(pieces) |-> trim(pieces[i])])

(* s.match(/^(.+?)op(.+)$/) for a literal op: the lazy first group ends at *)
(* the first place, after at least one character, where op stands and at   *)
(* least one character follows it.  No match is the empty set.             *)
match(s, op) ==
  LET hits == {i \in 2..Len(s) :
                 /\ i + Len(op) <= Len(s)
                 /\ SubSeq(s, i, i + Len(op) - 1) = op}
  IN IF hits = {} THEN {}
     ELSE LET i == CHOOSE h \in hits : \A j \in hits : h <= j
          IN {[g1 |-> SubSeq(s, 1, i - 1), g2 |-> SubSeq(s, i + Len(op), Len(s))]}

(* segment.match(/^(.+?)[:=](.+)$/) *)
matchWeight(s) ==
  LET hits == {i \in 2..Len(s) : i < Len(s) /\ s[i] \in {":", "="}}
  IN IF hits = {} THEN {}
     ELSE LET i == CHOOSE h \in hits : \A j \in hits : h <= j
          IN {[g1 |-> SubSeq(s, 1, i - 1), g2 |-> SubSeq(s, i + 1, Len(s))]}

(* parseFloat on texts without ".", "e", "+" and "Infinity": white space    *)
(* is skipped, then a sign and the longest run of digits are read; NaN is  *)
(* the empty set.                                                          *)
RECURSIVE readDigits(_, _, _)
readDigits(s, i, acc) ==
  IF i <= Len(s) /\ s[i] \in DOMAIN DigitValue
  THEN readDigits(s, i + 1, [n |-> 10 * acc.n + DigitValue[s[i]], any |-> TRUE])
  ELSE acc

parseFloat(str) ==
  LET s == trimStart(str)
      negative == s # <<>> /\ s[1] = "-"
      d == readDigits(s, IF negative THEN 2 ELSE 1, [n |-> 0, any |-> FALSE])
  IN IF ~d.any THEN {} ELSE {IF negative THEN -d.n ELSE d.n}

(* String(num) for a whole number; String(-0) is "0". *)
RECURSIVE digitsOf(_)
digitsOf(n) ==
  LET c == CHOOSE ch \in DOMAIN DigitValue : DigitValue[ch] = n % 10 IN
  IF n < 10 THEN <<c>> ELSE Append(digitsOf(n \div 10), c)

numberToString(num) ==
  IF num < 0 THEN <<"-">> \o digitsOf(-num) ELSE digitsOf(num)

parseNodeId(id) ==
  LET num == parseFloat(id) IN
  IF num # {} /\ numberToString(CHOOSE n \in num : TRUE) = id
  THEN [threw |-> FALSE, id |-> [type |-> "number", text |-> id]]
  ELSE IF Len(id) = 0
  THEN [threw |-> TRUE, message |-> <<"Empty node ID">>]
  ELSE [threw |-> FALSE, id |-> [type |-> "string", text |-> id]]

(* The edge of a match: both ids parsed, from first. *)
edgeOfMatch(m, weight, directed) ==
  LET from == parseNodeId(trim(m.g1)) IN
  IF from.threw THEN from
  ELSE LET to == parseNodeId(trim(m.g2)) IN
       IF to.threw THEN to
       ELSE [threw |-> FALSE, from |-> from.id, to |-> to.id,
             weight |-> weight, isDirected |-> directed]

parseEdgeSegment(segment, defaultWeight) ==
  LET weightMatch == matchWeight(segment)
      wm == CHOOSE m \in weightMatch : TRUE
      edgePart == IF weightMatch # {} THEN trim(wm.g1) ELSE segment
      weight == IF weightMatch # {} THEN parseFloat(trim(wm.g2)) ELSE {}
      arrow == match(edgePart, <<"-", ">">>)
      dash == match(edgePart, <<"-">>)
      both == match(edgePart, <<"<", "-", ">">>)
  IN IF weightMatch # {} /\ weight = {}
     THEN [threw |-> TRUE, message |-> <<"Invalid weight: ", trim(wm.g2)>>]
     ELSE IF arrow # {} THEN edgeOfMatch(CHOOSE m \in arrow : TRUE, weight, TRUE)
     ELSE IF dash # {} THEN edgeOfMatch(CHOOSE m \in dash : TRUE, weight, FALSE)
     ELSE IF both # {} THEN edgeOfMatch(CHOOSE m \in both : TRUE, weight, FALSE)
     ELSE [threw |-> TRUE, message |-> <<"Invalid edge format: ", segment>>]

(* The body of the loop over the segments.  A const of the source (edge,   *)
(* segments) is bound by a set constructor over a singleton, which computes *)
(* its value once.                                                          *)
RECURSIVE parseSegments_ZeroBased(_, _, _, _)
parseSegments_ZeroBased(segments, i, defaultWeight, st) ==
  IF i > Len(segments) THEN st
  ELSE
    LET outcome(edge) ==
          IF edge.threw
          THEN [st EXCEPT !.errors = Append(@, <<"Line ", i - 1, ": ">> \o edge.message)]
          ELSE [edges |-> Append(st.edges, [from |-> edge.from, to |-> edge.to,
                                            weight |-> edge.weight]),
                errors |-> st.errors,
                hasDirectedArrows |-> st.hasDirectedArrows \/ edge.isDirected,
                hasUndirectedDashes |-> st.hasUndirectedDashes \/ ~edge.isDirected]
    IN CHOOSE out \in
         {parseSegments_ZeroBased(segments, i + 1, defaultWeight, next) :
            next \in {outcome(edge) :
              edge \in {parseEdgeSegment(segments[i], defaultWeight)}}} : TRUE

RECURSIVE parseSegments(_, _, _, _)
parseSegments(segments, i, defaultWeight, st) ==
  IF i > Len(segments) THEN st
  ELSE
    LET outcome(edge) ==
          IF edge.threw
          THEN [st EXCEPT !.errors = Append(@, <<"Line ", i, ": ">> \o edge.message)]
          ELSE [edges |-> Append(st.edges, [from |-> edge.from, to |-> edge.to,
                                            weight |-> edge.weight]),
                errors |-> st.errors,
                hasDirectedArrows |-> st.hasDirectedArrows \/ edge.isDirected,
                hasUndirectedDashes |-> st.hasUndirectedDashes \/ ~edge.isDirected]
    IN CHOOSE out \in
         {parseSegments(segments, i + 1, defaultWeight, next) :
            next \in {outcome(edge) :
              edge \in {parseEdgeSegment(segments[i], defaultWeight)}}} : TRUE

parseEdgeInput(input, assumeDirected) ==
  LET defaultWeight == 1
      parsed(segments) ==
        LET outcome(st) ==
              [edges |-> st.edges, errors |-> st.errors,
               warnings |-> IF st.hasDirectedArrows /\ st.hasUndirectedDashes /\ ~assumeDirected
                            THEN <<"Mixed directed (->) and undirected (-) notation detected. Treating all as undirected">>
                            ELSE <<>>]
        IN IF Len(segments) = 0
           THEN [edges |-> <<>>, errors |-> <<<<"No edges provided">>>>, warnings |-> <<>>]
           ELSE CHOOSE r \in
                  {outcome(st) :
                     st \in {parseSegments(segments, 1, defaultWeight,
                               [edges |-> <<>>, errors |-> <<>>,
                                hasDirectedArrows |-> FALSE,
                                hasUndirectedDashes |-> FALSE])}} : TRUE
  IN CHOOSE r \in {parsed(segments) : segments \in {segmentsOf(input)}} : TRUE

(* The texts given to the parser: one segment over SegmentChars, or an     *)
(* input of several segments over InputChars.                              *)
InitParser ==
  /\ adjacencyList = <<>>
  /\ nodes = <<>>
  /\ edgeCount = 0
  /\ NoStorage
  /\ config = [directed |-> FALSE, weighted |-> FALSE, allowSelfLoops |-> TRUE,
               allowMultipleEdges |-> FALSE]
  /\ \/ \E n \in 0..MaxSegmentLen : \E s \in [1..n -> SegmentChars] :
          result = [alg |-> "input", input |-> s]
     \/ \E n \in 0..MaxInputLen : \E s \in [1..n -> InputChars] :
          result = [alg |-> "input", input |-> s]

ParseEdgeInput(assumeDirected) ==
  /\ result.alg = "input"
  /\ LET r == parseEdgeInput(result.input, assumeDirected) IN
     result' = [alg |-> "parseEdgeInput", input |-> result.input,
                assumeDirected |-> assumeDirected,
                edges |-> r.edges, errors |-> r.errors, warnings |-> r.warnings]
  /\ UNCHANGED <<adjacencyList, nodes, edgeCount, config, localStorage, calls>>

(* parseEdgeSegment is called on the segments of an input only: trimmed,   *)
(* not empty and without a separator.                                      *)
ParseEdgeSegment ==
  /\ result.alg = "input"
  /\ segmentsOf(result.input) = <<result.input>>
  /\ LET r == parseEdgeSegment(result.input, 1) IN
     result' = [alg |-> "parseEdgeSegment", segment |-> result.input, edge |-> r]
  /\ UNCHANGED <<adjacencyList, nodes, edgeCount, config, localStorage, calls>>

NextParser ==
  \/ \E assumeDirected \in BOOLEAN : ParseEdgeInput(assumeDirected)
  \/ ParseEdgeSegment

SpecParser == InitParser /\ [][NextParser]_vars

----------------------------------------------------------------------------
(* The graph store: LocalStorage holds the id index under "graphs" and the *)
(* StoredGraph of id under "graph_" + id (item[id]).  A JSON text is kept as *)
(* the value it parses to; getItem of a missing key (undefined) is the      *)
(* empty set.  saveGraph is async: every await of a LocalStorage call is    *)
(* one step of the call, and the calls of different saveGraph runs take     *)
(* their steps in any order.  Of GraphData the model keeps the id.          *)
getItem(store, id) ==
  IF id \in DOMAIN store.item THEN {store.item[id]} ELSE {}

setItem(store, id, storedGraph) ==
  [store EXCEPT !.item = Put(@, id, storedGraph)]

(* listGraphs when no write comes between its reads. *)
RECURSIVE readItems(_, _, _, _)
readItems(store, ids, k, graphs) ==
  IF k > Len(ids) THEN graphs
  ELSE LET item == getItem(store, ids[k]) IN
       readItems(store, ids, k + 1,
                 IF item # {} THEN Append(graphs, CHOOSE g \in item : TRUE) ELSE graphs)

listGraphs(store) ==
  IF store.graphs = {} THEN <<>>
  ELSE readItems(store, CHOOSE ids \in store.graphs : TRUE, 1, <<>>)

(* saveGraph after listGraphs has returned graphs: the StoredGraph and the *)
(* updated list, ready for the two setItem calls.                          *)
prepare(graph, graphs) ==
  LET hits == {i \in 1..Len(graphs) : graphs[i].id = graph.id}
      existingIndex == IF hits = {} THEN -1 ELSE CHOOSE i \in hits : \A j \in hits : i <= j
      storedGraph == [id |-> graph.id, data |-> graph,
                      accessCount |-> IF existingIndex >= 0
                                      THEN graphs[existingIndex].accessCount + 1 ELSE 1]
  IN [pc |-> "setItem", storedGraph |-> storedGraph,
      graphs |-> IF existingIndex >= 0 THEN [graphs EXCEPT ![existingIndex] = storedGraph]
                 ELSE Append(graphs, storedGraph)]

StorageStep(store, cs) ==
  /\ result = NoResult
  /\ localStorage' = store
  /\ calls' = cs
  /\ UNCHANGED <<adjacencyList, nodes, edgeCount, config, result>>

(* saveGraph(graph) is called: listGraphs awaits getItem("graphs"). *)
SaveGraph(id) ==
  /\ calls[id].pc = "idle"
  /\ StorageStep(localStorage, [calls EXCEPT ![id] = [pc |-> "getIndex"]])

(* getItem("graphs") resolves: no index gives [], else the ids are read    *)
(* one by one.                                                             *)
GetIndex(id) ==
  /\ calls[id].pc = "getIndex"
  /\ StorageStep(localStorage,
       [calls EXCEPT ![id] =
          IF localStorage.graphs = {} \/ localStorage.graphs = {<<>>}
          THEN prepare([id |-> id], <<>>)
          ELSE [pc |-> "getItem", ids |-> CHOOSE ids \in localStorage.graphs : TRUE,
                k |-> 1, graphs |-> <<>>]])

(* getItem("graph_" + ids[k]) resolves. *)
GetItem(id) ==
  /\ calls[id].pc = "getItem"
  /\ LET c == calls[id]
         item == getItem(localStorage, c.ids[c.k])
         graphs == IF item # {} THEN Append(c.graphs, CHOOSE g \in item : TRUE) ELSE c.graphs
     IN StorageStep(localStorage,
          [calls EXCEPT ![id] =
             IF c.k = Len(c.ids) THEN prepare([id |-> id], graphs)
             ELSE [c EXCEPT !.k = c.k + 1, !.graphs = graphs]])

(* setItem("graph_" + id, storedGraph) takes effect. *)
SetItem(id) ==
  /\ calls[id].pc = "setItem"
  /\ StorageStep(setItem(localStorage, id, calls[id].storedGraph),
                 [calls EXCEPT ![id] = [pc |-> "setIndex", graphs |-> calls[id].graphs]])

(* setItem("graphs", ids of graphs) takes effect and saveGraph returns. *)
SetIndex(id) ==
  /\ calls[id].pc = "setIndex"
  /\ StorageStep([localStorage EXCEPT
                    !.graphs = {[i \in 1..Len(calls[id].graphs) |-> calls[id].graphs[i].id]}],
                 [calls EXCEPT ![id] = [pc |-> "done"]])

(* A saved graph may be saved again. *)
SaveAgain(id) ==
  /\ calls[id].pc = "done"
  /\ localStorage.item[id].accessCount < MaxAccessCount
  /\ StorageStep(localStorage, [calls EXCEPT ![id] = [pc |-> "getIndex"]])

(* listGraphs() called when no saveGraph call is under way. *)
ListGraphs ==
  /\ \A id \in GraphIds : calls[id].pc \in {"idle", "done"}
  /\ result = NoResult
  /\ result' = [alg |-> "listGraphs", graphs |-> listGraphs(localStorage)]
  /\ UNCHANGED <<adjacencyList, nodes, edgeCount, config, localStorage, calls>>

NextStorage ==
  \/ \E id \in GraphIds :
       \/ SaveGraph(id)
       \/ GetIndex(id)
       \/ GetItem(id)
       \/ SetItem(id)
       \/ SetIndex(id)
       \/ SaveAgain(id)
  \/ ListGraphs
  \/ Discard

InitStorage ==
  /\ adjacencyList = <<>>
  /\ nodes = <<>>
  /\ edgeCount = 0
  /\ NoStorage
  /\ config = [directed |-> FALSE, weighted |-> FALSE, allowSelfLoops |-> TRUE,
               allowMultipleEdges |-> FALSE]
  /\ result = NoResult

SpecStorage == InitStorage /\ [][NextStorage]_vars

----------------------------------------------------------------------------
(* The runs with options = { recordSteps: true }. *)
BfsSteps(start) ==
  LET r == bfsRun(this, start, TRUE) IN
  Returns([alg |-> "bfs", start |-> start, order |-> r.order, steps |-> r.steps])

DfsSteps(start) ==
  LET r == dfsRun(this, start, TRUE) IN
  Returns([alg |-> "dfs", start |-> start, order |-> r.order, steps |-> r.steps])

DfsIterativeSteps(start) ==
  LET r == dfsIterativeRun(this, start, TRUE) IN
  Returns([alg |-> "dfsIterative", start |-> start, order |-> r.order, steps |-> r.steps])

DijkstraSteps(start, end) ==
  LET r == dijkstraWith(this, start, end, TRUE) IN
  Returns([alg |-> "dijkstra", start |-> start, end |-> end, returns |-> r.returns,
           path |-> r.path, distance |-> r.distance, steps |-> r.steps])

FloydWarshallSteps ==
  LET r == floydWarshallWith(this, TRUE) IN
  Returns([alg |-> "floydWarshall", distances |-> r.distances,
           next |-> r.next, nodes |-> r.nodes, steps |-> r.steps])

KruskalSteps ==
  LET r == kruskalWith(this, TRUE) IN
  Returns([alg |-> "kruskal", threw |-> r.threw, edges |-> r.edges,
           totalWeight |-> r.totalWeight, steps |-> r.steps])

PrimSteps(start) ==
  LET r == primWith(this, start, TRUE) IN
  Returns([alg |-> "prim", start |-> start, threw |-> r.threw, edges |-> r.edges,
           totalWeight |-> r.totalWeight, steps |-> r.steps])

(* The start is 1, as for dijkstra in SpecPath: the graphs are built over  *)
(* every id in every insertion order.                                      *)
NextTrace ==
  \/ Mutate(NumIds, UnitWeights)
  \/ \E start \in PathStarts : BfsSteps(start)
  \/ \E start \in PathStarts : DfsSteps(start)
  \/ \E start \in PathStarts : DfsIterativeSteps(start)
  \/ FindConnectedComponents(TRUE)
  \/ \E start \in PathStarts, end \in NumIds : DijkstraSteps(start, end)
  \/ FloydWarshallSteps
  \/ KruskalSteps
  \/ \E start \in {{}} \cup {{n} : n \in PathStarts} : PrimSteps(start)
  \/ Discard

SpecTrace == InitWith(AlgConfigs) /\ [][NextTrace]_vars

----------------------------------------------------------------------------
(* Quantities the claims speak about *)

SlotCount(g) ==
  LET keys == DOMAIN g.adjacencyList
      RECURSIVE Sum(_)
      Sum(S) == IF S = {} THEN 0
                ELSE LET k == CHOOSE x \in S : TRUE
                     IN Len(g.adjacencyList[k]) + Sum(S \ {k})
  IN Sum(keys)

CountTo(list, id) == Cardinality({i \in 1..Len(list) : list[i].node = id})

----------------------------------------------------------------------------
(* Claims about the Graph class *)

IsWhole(q) == q.num % q.den = 0

(* C1: on an undirected graph totalEdgeCount is a whole number equal to    *)
(* half the number of neighbor-list slots (the number of undirected        *)
(* edges), after any sequence of addNode/addEdge/removeEdge/removeNode.    *)
C1_TotalEdgeCountIsHalfSlots ==
  ~config.directed =>
    /\ IsWhole(totalEdgeCount(this))
    /\ 2 * totalEdgeCount(this).num = SlotCount(this) * totalEdgeCount(this).den

(* C2: undirected, allowMultipleEdges = false: v is in u's neighbor list   *)
(* with weight w iff u is in v's list with weight w, hence                 *)
(* getEdgeWeight(u,v) = getEdgeWeight(v,u) for all u, v.                   *)
HasSlot(g, u, v, w) ==
  \E i \in 1..Len(getNeighbors(g, u)) :
    getNeighbors(g, u)[i] = [node |-> v, weight |-> w]

C2_MirroredWeights ==
  (~config.directed /\ ~config.allowMultipleEdges) =>
    \A u \in NodeId, v \in NodeId :
      /\ \A w \in Weights : HasSlot(this, u, v, w) <=> HasSlot(this, v, u, w)
      /\ getEdgeWeight(this, u, v) = getEdgeWeight(this, v, u)

(* C3: under every GraphConfig every neighbor target is a member of the    *)
(* node set; in particular after removeNode(x) no neighbor list holds x.   *)
C3_NeighborsAreNodes ==
  \A k \in DOMAIN adjacencyList :
    \A i \in 1..Len(adjacencyList[k]) : SetHas(nodes, adjacencyList[k][i].node)

(* C4: for every configuration getEdges() has exactly one entry for each   *)
(* edge currently in the graph (an undirected edge counted once whatever   *)
(* direction it was given in) and no entry for an edge that is not in it.  *)
EdgesBetween(g, u, v) ==
  IF ~g.config.directed /\ u = v THEN CountTo(getNeighbors(g, u), u) \div 2
  ELSE CountTo(getNeighbors(g, u), v)

EntriesFor(g, edges, u, v) ==
  Cardinality({i \in 1..Len(edges) :
                 \/ edges[i].from = u /\ edges[i].to = v
                 \/ ~g.config.directed /\ edges[i].from = v /\ edges[i].to = u})

C4_GetEdgesOncePerEdge ==
  /\ ~getEdges(this).threw
  /\ \A u \in NodeId, v \in NodeId :
       EntriesFor(this, getEdges(this).edges, u, v) = EdgesBetween(this, u, v)

----------------------------------------------------------------------------
(* Claims about traversal *)

NoDuplicates(seq) == \A i \in 1..Len(seq), j \in 1..Len(seq) : seq[i] = seq[j] => i = j

(* The nodes of the graph that a path of neighbor slots joins to start. *)
RECURSIVE ReachClosure(_, _)
ReachClosure(g, R) ==
  LET more == {n \in Range(g.nodes) :
                 \E u \in R : CountTo(getNeighbors(g, u), n) > 0}
  IN IF more \subseteq R THEN R ELSE ReachClosure(g, R \cup more)

Reachable(g, start) == ReachClosure(g, {start})

(* C6: for a start node in the graph, the order of bfs and of dfs has no   *)
(* node twice and holds exactly the nodes reachable from start; on an      *)
(* undirected graph its length is the size of start's component.           *)
C6_TraversalVisitsComponentOnce ==
  (result.alg \in {"bfs", "dfs"} /\ SetHas(nodes, result.start)) =>
    /\ NoDuplicates(result.order)
    /\ Range(result.order) = Reachable(this, result.start)
    /\ ~config.directed =>
         Len(result.order) = Cardinality(Reachable(this, result.start))

(* C7: for every graph (self-loops, parallel edges, cycles) and every      *)
(* start, dfs and dfsIterative return the same order.                      *)
C7_DfsOrdersAgree ==
  /\ result.alg = "dfs" => result.order = dfsIterative(this, result.start).order
  /\ result.alg = "dfsIterative" => result.order = dfs(this, result.start).order

(* A dfsIterative run on a graph with a cycle through three nodes and a    *)
(* self-loop or parallel edge, where a node sits on the stack twice.       *)
C7_Witness ==
  /\ result.alg = "dfsIterative"
  /\ Len(result.order) = 3
  /\ \E u \in NumIds : CountTo(getNeighbors(this, u), result.order[3]) > 0
                        /\ u # result.order[2]
  /\ \E u \in NumIds, v \in NumIds :
       CountTo(getNeighbors(this, u), v) > 1 \/ CountTo(getNeighbors(this, u), u) > 0
  /\ CountTo(getNeighbors(this, result.order[3]), result.start) > 0

----------------------------------------------------------------------------
(* Claims about shortest paths *)

Min(S) == CHOOSE x \in S : \A y \in S : x <= y

SlotWeights(g, u, v) ==
  {getNeighbors(g, u)[i].weight :
     i \in {k \in 1..Len(getNeighbors(g, u)) : getNeighbors(g, u)[k].node = v}}

(* The least total weight of a path of at most k more slots between nodes  *)
(* of the graph, by rounds of relaxation (weights are not negative).       *)
RECURSIVE MinDistRounds(_, _, _)
MinDistRounds(g, D, k) ==
  IF k = 0 THEN D
  ELSE MinDistRounds(g,
         [v \in DOMAIN D |->
            Min({D[v]} \cup
                UNION {{Plus(D[u], w) : w \in SlotWeights(g, u, v)} : u \in DOMAIN D})],
         k - 1)

MinDist(g, s, t) ==
  LET V == Range(g.nodes) \cup {s} IN
  IF t \notin V THEN Infinity
  ELSE MinDistRounds(g, [v \in V |-> IF v = s THEN 0 ELSE Infinity], Cardinality(V))[t]

RECURSIVE HopSum(_, _, _)
HopSum(g, path, i) ==
  IF i >= Len(path) THEN 0
  ELSE Min(SlotWeights(g, path[i], path[i + 1])) + HopSum(g, path, i + 1)

IsPathOfWeight(g, path, s, t, d) ==
  /\ path # <<>>
  /\ path[1] = s
  /\ path[Len(path)] = t
  /\ \A i \in 1..(Len(path) - 1) : SlotWeights(g, path[i], path[i + 1]) # {}
  /\ HopSum(g, path, 1) = d

(* C5: non-negative weights, start a node of the graph, any end: distance  *)
(* is the least total weight of a path from start to end and path is such  *)
(* a path; when end is unreachable distance is Infinity and path is empty. *)
C5_DijkstraShortestPath ==
  (result.alg = "dijkstra" /\ SetHas(nodes, result.start)) =>
    LET d == MinDist(this, result.start, result.end) IN
    /\ result.distance = {d}
    /\ IF d = Infinity THEN result.path = <<>>
       ELSE IsPathOfWeight(this, result.path, result.start, result.end, d)

(* C10: every diagonal entry of floydWarshall's distance matrix is 0, for  *)
(* every graph (self-loops allowed, any weights).                          *)
C10_FloydWarshallDiagonalZero ==
  result.alg = "floydWarshall" =>
    \A i \in 1..Len(result.nodes) : result.distances[i][i] = 0

(* C11: non-negative weights, s and t distinct nodes, t reachable from s:  *)
(* the entry of floydWarshall's distance matrix for (s, t) equals the      *)
(* distance that dijkstra(graph, s) reports for t.                         *)
C11_FloydWarshallAgreesWithDijkstra ==
  /\ result.alg = "floydWarshall" =>
       \A i \in 1..Len(result.nodes), j \in 1..Len(result.nodes) :
         (i # j /\ result.nodes[j] \in Reachable(this, result.nodes[i])) =>
           {result.distances[i][j]} = dijkstraAll(this, result.nodes[i]).paths[result.nodes[j]].distance
  /\ (result.alg = "dijkstraAll" /\ SetHas(nodes, result.start)) =>
       \A t \in DOMAIN result.paths :
         t \in Reachable(this, result.start) =>
           LET fw == floydWarshall(this) IN
           result.paths[t].distance =
             {fw.distances[IndexOf(fw.nodes, result.start)][IndexOf(fw.nodes, t)]}

(* C14: every call of an algorithm on a finite graph returns, whatever the *)
(* edge weights are (negative weights and negative cycles included).       *)
C14_EveryCallReturns ==
  "returns" \in DOMAIN result => result.returns

(* A closed walk of negative total weight through a node that a path of    *)
(* slots joins to start (an undirected edge is a slot in each direction).  *)
NegativeCycleReachable(g, start) ==
  \E v \in Reachable(g, start) :
    MinDistRounds(g, [x \in Range(g.nodes) |-> IF x = v THEN 0 ELSE Infinity],
                  Len(g.nodes))[v] < 0

(* C15: bellmanFord(graph, start) returns null iff a cycle of negative     *)
(* total weight is reachable from start, on directed and on undirected     *)
(* graphs; otherwise it returns a map of results.                          *)
C15_BellmanFordNullIffNegativeCycle ==
  (result.alg = "bellmanFord" /\ SetHas(nodes, result.start)) =>
    (result.value = {} <=> NegativeCycleReachable(this, result.start))

(* C29: for every graph, directed or undirected, with non-negative edge   *)
(* weights and every start node in it, bellmanFord(graph, start) reports   *)
(* for every other node the same distance as dijkstra(graph, start): the   *)
(* least path weight if the node is reachable and Infinity otherwise.      *)
C29_BellmanFordAgreesWithDijkstra ==
  (/\ result.alg = "bellmanFord"
   /\ SetHas(nodes, result.start)
   /\ \A u \in Range(nodes), v \in NodeId : \A w \in SlotWeights(this, u, v) : w >= 0) =>
    /\ result.value # {}
    /\ \A value \in result.value :
         \A node \in Range(nodes) \ {result.start} :
           /\ value[node].distance = dijkstraAll(this, result.start).paths[node].distance
           /\ value[node].distance = {MinDist(this, result.start, node)}

----------------------------------------------------------------------------
(* Claims about spanning trees *)

Connected(g) == Len(g.nodes) > 0 /\ Reachable(g, g.nodes[1]) = Range(g.nodes)

(* C8: on a connected weighted undirected graph built with addEdge calls,  *)
(* kruskal(graph).totalWeight = prim(graph, start).totalWeight for every   *)
(* start node (and for the default start).                                 *)
C8_KruskalPrimSameWeight ==
  (~config.directed /\ Connected(this)) =>
    /\ (result.alg = "prim" /\ result.start \subseteq Range(nodes)) =>
         result.totalWeight = kruskal(this).totalWeight
    /\ result.alg = "kruskal" =>
         \A n \in Range(nodes) : prim(this, {n}).totalWeight = result.totalWeight

(* Unordered pairs of distinct nodes joined by a slot, with the least      *)
(* weight of a slot between them.                                          *)
NodePairs(g) ==
  {{u, v} : u \in Range(g.nodes), v \in Range(g.nodes)} \ {{u} : u \in Range(g.nodes)}

Joined(g, p) ==
  \E u \in p, v \in p : u # v /\ SlotWeights(g, u, v) # {}

PairWeight(g, p) ==
  Min(UNION {SlotWeights(g, e[1], e[2]) : e \in {x \in p \X p : x[1] # x[2]}})

RECURSIVE PairClosure(_, _)
PairClosure(F, R) ==
  LET more == UNION {p \in F : p \cap R # {}} IN
  IF more \subseteq R THEN R ELSE PairClosure(F, R \cup more)

NumComponents(V, F) == Cardinality({PairClosure(F, {v}) : v \in V})

IsForest(V, F) == Cardinality(F) = Cardinality(V) - NumComponents(V, F)

RECURSIVE SumPairs(_, _)
SumPairs(g, F) ==
  IF F = {} THEN 0
  ELSE LET p == CHOOSE x \in F : TRUE IN PairWeight(g, p) + SumPairs(g, F \ {p})

MinForestWeight(g) ==
  LET V == Range(g.nodes)
      E == {p \in NodePairs(g) : Joined(g, p)}
  IN Min({SumPairs(g, F) :
            F \in {X \in SUBSET E : IsForest(V, X) /\ NumComponents(V, X) = NumComponents(V, E)}})

RECURSIVE SumEdgeWeights(_, _)
SumEdgeWeights(edges, i) ==
  IF i > Len(edges) THEN 0 ELSE EdgeWeight(edges[i]) + SumEdgeWeights(edges, i + 1)

EdgePairs(edges) == {{edges[i].from, edges[i].to} : i \in 1..Len(edges)}

(* C9: on an undirected graph kruskal returns an acyclic edge set of       *)
(* |V| - (number of components) edges, of least total weight among the     *)
(* spanning forests, and totalWeight is the sum of the returned weights    *)
(* (an absent weight counts 1).                                            *)
C9_KruskalMinimumForest ==
  (result.alg = "kruskal" /\ ~config.directed) =>
    LET V == Range(nodes)
        E == {p \in NodePairs(this) : Joined(this, p)}
        F == EdgePairs(result.edges)
    IN
    /\ ~result.threw
    /\ Len(result.edges) = Cardinality(V) - NumComponents(V, E)
    /\ Cardinality(F) = Len(result.edges)
    /\ \A p \in F : Cardinality(p) = 2
    /\ IsForest(V \cup UNION F, F)
    /\ result.totalWeight = SumEdgeWeights(result.edges, 1)
    /\ result.totalWeight = MinForestWeight(this)

(* The nodes of the tree before the i-th returned edge was added. *)
TreeBefore(start, edges, i) == {start} \cup {edges[j].to : j \in 1..(i - 1)}

(* C22: on an undirected graph, for a start node in it, prim raises no     *)
(* error and returns exactly |C| - 1 edges, C the connected component of   *)
(* start; each returned edge is an edge of the graph that joins a node     *)
(* already in the tree to a node not yet in it, and the tree spans C, also *)
(* when C is not the whole graph.                                          *)
C22_PrimSpansComponent ==
  (result.alg = "prim" /\ ~config.directed /\ result.start # {}
     /\ result.start \subseteq Range(nodes)) =>
    LET start == CHOOSE x \in result.start : TRUE
        C == Reachable(this, start)
        edges == result.edges
    IN
    /\ ~result.threw
    /\ Len(edges) = Cardinality(C) - 1
    /\ \A i \in 1..Len(edges) :
         /\ edges[i].from \in TreeBefore(start, edges, i)
         /\ edges[i].to \notin TreeBefore(start, edges, i)
         /\ HasSlot(this, edges[i].from, edges[i].to, edges[i].weight)
    /\ TreeBefore(start, edges, Len(edges) + 1) = C

----------------------------------------------------------------------------
(* Claims about graph properties *)

FracEq(a, b) == a.num * b.den = b.num * a.den

(* C12: on an undirected graph with at least two nodes calculateDensity    *)
(* returns 2*E / (|V| * (|V| - 1)), E the number of undirected edges (half *)
(* the neighbor-list slots); the triangle 1-2, 2-3, 3-1 has density 1.     *)
C12_DensityOfUndirected ==
  (result.alg = "calculateDensity" /\ ~config.directed /\ Len(nodes) >= 2) =>
    FracEq(result.value,
           [num |-> SlotCount(this), den |-> Len(nodes) * (Len(nodes) - 1)])

(* C13: isTree is true iff the graph is undirected, connected and has      *)
(* exactly n - 1 edges, graphs with 0 or 1 node counting as trees.         *)
C13_IsTreeIffConnectedWithNMinus1Edges ==
  result.alg = "isTree" =>
    (result.value <=>
       /\ ~config.directed
       /\ \/ Len(nodes) <= 1
          \/ /\ Connected(this)
             /\ SlotCount(this) = 2 * (Len(nodes) - 1))

(* A split of the nodes into the set A and the rest such that no slot      *)
(* joins two nodes of the same side.                                       *)
IsSplit(g, A) ==
  \A u \in Range(g.nodes), v \in Range(g.nodes) :
    CountTo(getNeighbors(g, u), v) > 0 => ((u \in A) # (v \in A))

(* C20: for every graph, directed or undirected, isBipartite is true       *)
(* exactly when the nodes can be split into two sets such that no edge has *)
(* both endpoints in the same set; the two partitions returned are then    *)
(* disjoint, cover all nodes and are such a split.                         *)
C20_IsBipartiteExact ==
  result.alg = "isBipartite" =>
    /\ result.isBipartite <=> \E A \in SUBSET Range(nodes) : IsSplit(this, A)
    /\ result.isBipartite =>
         \A p \in result.partitions :
           /\ Range(p[1]) \cap Range(p[2]) = {}
           /\ Range(p[1]) \cup Range(p[2]) = Range(nodes)
           /\ IsSplit(this, Range(p[1]))

(* A cycle through every node exactly once: an arrangement of all nodes    *)
(* in which each node has a slot to the next and the last to the first.    *)
HasHamiltonianCycle(g) ==
  LET n == Len(g.nodes) IN
  /\ n >= 3
  /\ \E a \in {x \in Arrangements(Range(g.nodes)) : Len(x) = n} :
       \A i \in 1..n : CountTo(getNeighbors(g, a[i]), a[(i % n) + 1]) > 0

(* C21: on an undirected graph under the default configuration            *)
(* (self-loops allowed, no multiple edges), whenever                       *)
(* checkHamiltonianConditions returns isPossible = true the graph has a    *)
(* Hamiltonian cycle.                                                      *)
C21_HamiltonianConditionsSound ==
  (/\ result.alg = "checkHamiltonianConditions"
   /\ ~config.directed /\ config.allowSelfLoops /\ ~config.allowMultipleEdges
   /\ result.isPossible) => HasHamiltonianCycle(this)

(* C23: the components returned by findConnectedComponents partition the  *)
(* node set; on an undirected graph two nodes are in the same component    *)
(* iff a path joins them; isConnected is true exactly when there is at     *)
(* most one component, and equals the result of isConnected(graph).        *)
C23_ComponentsPartitionNodes ==
  /\ result.alg = "findConnectedComponents" =>
       LET cs == result.components IN
       /\ \A n \in Range(nodes) :
            Cardinality({<<c, k>> \in (1..Len(cs)) \X (1..MaxSlots * MaxSlots + Len(nodes)) :
                           k <= Len(cs[c]) /\ cs[c][k] = n}) = 1
       /\ \A c \in 1..Len(cs) : Range(cs[c]) \subseteq Range(nodes)
       /\ ~config.directed =>
            \A u \in Range(nodes), v \in Range(nodes) :
              (\E c \in 1..Len(cs) : {u, v} \subseteq Range(cs[c])) <=> v \in Reachable(this, u)
       /\ result.isConnected <=> Len(cs) <= 1
       /\ result.isConnected <=> isConnected(this)
  /\ result.alg = "isConnected" =>
       (result.value <=> findConnectedComponents(this, FALSE).isConnected)

----------------------------------------------------------------------------
(* Claims about ids of both kinds *)

(* C16: addNode(x) never changes the neighbor list of a node that is       *)
(* already in the graph and never changes the edge count; when x is        *)
(* already present (ids compared by value: "1" and 1 differ) nodeCount is  *)
(* unchanged as well.                                                      *)
C16_AddNodeFrame ==
  [][\A x \in AliasIds :
       AddNode(x) =>
         /\ \A n \in Range(nodes) : getNeighbors(this', n) = getNeighbors(this, n)
         /\ edgeCount' = edgeCount
         /\ SetHas(nodes, x) => nodeCount(this') = nodeCount(this)]_vars

(* C19: for a start that is not a node of the graph (ids compared by       *)
(* value) bfs, dfs and dfsIterative return order = [start].                *)
C19_StartNotInGraph ==
  (result.alg \in {"bfs", "dfs", "dfsIterative"} /\ ~SetHas(nodes, result.start)) =>
    result.order = <<result.start>>

----------------------------------------------------------------------------
(* Claims about clone and the GraphData round trip *)

(* C17: clone() returns a graph with the same configuration, the same node *)
(* set and, for every ordered pair (u, v), the same hasEdge(u, v) and      *)
(* getEdgeWeight(u, v) as the original.  (The clone is built from new      *)
(* lists by addNode and addEdge, so later calls on one graph cannot reach  *)
(* the other; that part needs no state of its own.)                        *)
C17_CloneSameTopology ==
  result.alg = "clone" =>
    /\ ~result.threw
    /\ result.graph.config = config
    /\ Range(result.graph.nodes) = Range(nodes)
    /\ \A u \in NodeId, v \in NodeId :
         /\ hasEdge(result.graph, u, v) <=> hasEdge(this, u, v)
         /\ getEdgeWeight(result.graph, u, v) = getEdgeWeight(this, u, v)

(* C18: for a graph record d whose node list holds every edge endpoint and *)
(* whose edges are pairwise distinct and allowed by d.config,              *)
(* graphToData(buildGraphFromData(d)) has the node set of d, the set of    *)
(* weighted edges of d (an absent weight read as 1, endpoints unordered    *)
(* when undirected) and a configuration equal to d.config.                 *)
C18_DataRoundTrip ==
  result.alg = "graphToData" =>
    LET d == result.data
        out == result.out
    IN
    /\ {out.nodes[i].id : i \in 1..Len(out.nodes)} = {d.nodes[i].id : i \in 1..Len(d.nodes)}
    /\ WeightedEdges(d.config.directed, out.edges) = WeightedEdges(d.config.directed, d.edges)
    /\ out.config = d.config

----------------------------------------------------------------------------
(* Claims about the parser *)

(* The texts of node ids: no operator, weight or separator character, and  *)
(* no white space at either end.                                           *)
IsIdText(s) ==
  /\ s # <<>>
  /\ trim(s) = s
  /\ \A i \in 1..Len(s) : s[i] \notin {"-", ">", "<", ":", "="} \cup Separators

(* C24: a segment a<->b is parsed into one edge whose endpoints are        *)
(* exactly the node ids a and b and is recorded as undirected notation;    *)
(* it never yields a node id containing "<".                               *)
C24_BidirectionalSegment ==
  (result.alg = "parseEdgeSegment" /\
   \E k \in 1..Len(result.segment) :
      /\ k + 3 <= Len(result.segment)
      /\ IsIdText(SubSeq(result.segment, 1, k - 1))
      /\ SubSeq(result.segment, k, k + 2) = <<"<", "-", ">">>
      /\ IsIdText(SubSeq(result.segment, k + 3, Len(result.segment)))) =>
    LET k == CHOOSE i \in 1..Len(result.segment) : result.segment[i] = "<"
        e == result.edge
    IN /\ ~e.threw
       /\ e.from.text = SubSeq(result.segment, 1, k - 1)
       /\ e.to.text = SubSeq(result.segment, k + 3, Len(result.segment))
       /\ ~e.isDirected
       /\ \A i \in 1..Len(e.from.text) : e.from.text[i] # "<"

(* The non-blank segments of an input, by position: the longest runs      *)
(* without a separator that hold a character other than white space, each  *)
(* without the white space at its ends, from left to right.                *)
Runs(s) ==
  {r \in (1..Len(s)) \X (1..Len(s)) :
     /\ r[1] <= r[2]
     /\ \A i \in r[1]..r[2] : s[i] \notin Separators
     /\ r[1] = 1 \/ s[r[1] - 1] \in Separators
     /\ r[2] = Len(s) \/ s[r[2] + 1] \in Separators
     /\ \E i \in r[1]..r[2] : s[i] \notin WhiteSpace}

Core(s, r) ==
  LET ink == {i \in r[1]..r[2] : s[i] \notin WhiteSpace} IN
  SubSeq(s, CHOOSE i \in ink : \A j \in ink : i <= j,
            CHOOSE i \in ink : \A j \in ink : i >= j)

NonBlankSegments(s) ==
  LET R == Runs(s) IN
  [j \in 1..Cardinality(R) |->
     Core(s, CHOOSE r \in R : Cardinality({q \in R : q[1] < r[1]}) = j - 1)]

(* What the segments give when each is parsed alone: the edges, and the    *)
(* positions of the segments that are in error, both in segment order.     *)
RECURSIVE ExpectedInOrder(_, _)
ExpectedInOrder(segments, i) ==
  IF i > Len(segments) THEN [edges |-> <<>>, lines |-> <<>>]
  ELSE LET rest == ExpectedInOrder(segments, i + 1)
           e == parseEdgeSegment(segments[i], 1)
       IN IF e.threw THEN [rest EXCEPT !.lines = <<i>> \o @]
          ELSE [rest EXCEPT !.edges = <<[from |-> e.from, to |-> e.to, weight |-> e.weight]>> \o @]

(* C25: an input with k >= 1 non-blank segments gives, for every segment,  *)
(* either exactly one edge or exactly one error tagged with its 1-based    *)
(* position: edges.length + errors.length = k, the errors' positions and   *)
(* the edges are in segment order and each is what parseEdgeSegment makes  *)
(* of that segment alone; for k = 0 the errors are ["No edges provided"]   *)
(* and there is no edge.                                                   *)
C25_OneOutcomePerSegment ==
  result.alg = "parseEdgeInput" =>
    LET segments == NonBlankSegments(result.input)
        k == Len(segments)
    IN IF k = 0
       THEN result.errors = <<<<"No edges provided">>>> /\ result.edges = <<>>
       ELSE /\ Len(result.edges) + Len(result.errors) = k
            /\ result.edges = ExpectedInOrder(segments, 1).edges
            /\ [i \in 1..Len(result.errors) |-> result.errors[i][2]]
                 = ExpectedInOrder(segments, 1).lines
            /\ \A i \in 1..Len(result.errors) : result.errors[i][1] = "Line "

(* An edge, a blank segment and a segment in error, which is the second    *)
(* non-blank one.                                                          *)
C25_Witness ==
  /\ result.alg = "parseEdgeInput"
  /\ Len(split(result.input)) = 3
  /\ Len(result.edges) = 1
  /\ Len(result.errors) = 1
  /\ result.errors[1][2] = 2

----------------------------------------------------------------------------
(* Claims about the graph store *)

(* C26: for any interleaving of saveGraph calls for graphs with distinct   *)
(* ids, once all calls have completed listGraphs returns every one of the  *)
(* saved graphs.                                                           *)
C26_NoSavedGraphMissing ==
  result.alg = "listGraphs" =>
    \A id \in GraphIds :
      calls[id].pc = "done" => \E i \in 1..Len(result.graphs) : result.graphs[i].id = id

----------------------------------------------------------------------------
(* Claims about recorded steps *)

(* The recorded steps of the result, if it has any. *)
StepsOf(r) == IF "steps" \in DOMAIN r THEN r.steps ELSE {}

(* C27: with recordSteps, floydWarshall on a graph with n nodes records    *)
(* exactly one step, tagged update or skip, for every triple (k, i, j) in  *)
(* loop order: steps.length = n^3, unreachable pairs included.             *)
C27_OneStepPerTriple ==
  result.alg = "floydWarshall" =>
    \A steps \in StepsOf(result) :
      LET n == Len(result.nodes) IN
      /\ Len(steps) = n * n * n
      /\ \A t \in 0..(Len(steps) - 1) :
           /\ steps[t + 1].k = t \div (n * n)
           /\ steps[t + 1].i = (t \div n) % n
           /\ steps[t + 1].j = t % n
           /\ steps[t + 1].action \in {"update", "skip"}

(* The number of slots on a shortest way from start to v; Infinity when    *)
(* there is none.                                                          *)
RECURSIVE HopRounds(_, _, _, _)
HopRounds(g, R, d, v) ==
  IF v \in R THEN d
  ELSE LET more == R \cup {getNeighbors(g, u)[i].node :
                             <<u, i>> \in {p \in R \X (1..(2 * MaxSlots + 2)) :
                                            p[2] <= Len(getNeighbors(g, p[1]))}}
       IN IF more = R THEN Infinity ELSE HopRounds(g, more, d + 1, v)

HopDistance(g, start, v) == HopRounds(g, {start}, 0, v)

(* The nodes dequeued up to and including step i of a bfs trace. *)
Dequeued(steps, i) == {steps[j].node : j \in {h \in 1..i : steps[h].action = "explore"}}

(* C28: in every state of a bfs run from a start node in the graph the     *)
(* queue holds no node twice, no dequeued node is in the queue, and the    *)
(* visited set is the dequeued nodes plus the queue; no node is enqueued   *)
(* twice and nodes are dequeued in non-decreasing hop distance from start. *)
C28_BfsRunInvariant ==
  (result.alg = "bfs" /\ SetHas(nodes, result.start)) =>
    \A steps \in StepsOf(result) :
      /\ \A i \in 1..Len(steps) :
           /\ NoDuplicates(steps[i].queue)
           /\ Dequeued(steps, i) \cap Range(steps[i].queue) = {}
           /\ steps[i].visited = Dequeued(steps, i) \cup Range(steps[i].queue)
      /\ \A i, j \in 1..Len(steps) :
           (i < j /\ steps[i].action = "visit" /\ steps[j].action = "visit")
             => steps[i].node # steps[j].node
      /\ \A a, b \in 1..Len(result.order) :
           a < b => HopDistance(this, result.start, result.order[a])
                      <= HopDistance(this, result.start, result.order[b])

(* A bfs of three nodes in which a neighbor already visited is met. *)
C28_Witness ==
  /\ result.alg = "bfs"
  /\ SetHas(nodes, result.start)
  /\ StepsOf(result) # {}
  /\ Len(result.order) = 3
  /\ ~config.directed
  /\ edgeCount = 3
  /\ HopDistance(this, result.start, result.order[3]) = 2

(* C30: in every recorded trace the step field of the i-th record equals   *)
(* i, counting from 0, also across the nested recursive calls of           *)
(* findConnectedComponents.                                                *)
C30_StepNumbersConsecutive ==
  \A steps \in StepsOf(result) :
    \A i \in 1..Len(steps) : steps[i].step = i - 1

(* Two components, the first of two nodes: a nested dfsVisit call, then a  *)
(* second start_component.                                                 *)
C30_Witness ==
  /\ result.alg = "findConnectedComponents"
  /\ result.count = 2
  /\ Len(result.components[1]) = 2
  /\ \E steps \in StepsOf(result) : Len(steps) = 5

====
